---- MODULE Spec2Model ----
(***************************************************************************)
(* Model of the weekly pairing engine of src/pairings.py:                  *)
(* generate_pairings_for_week and the helpers it calls.                    *)
(*                                                                         *)
(* Text values (player names, vibe, experience, faction, eta, scenario)    *)
(* are sequences of one-character strings, so that strip / split / lower / *)
(* startswith / substring / comparison are computed, not assumed.          *)
(* A missing optional text (Python None) is the empty sequence: every read *)
(* of such a field in the engine goes through `x or ""` or a truth test.   *)
(***************************************************************************)
EXTENDS Integers, Sequences, FiniteSets, TLC

\* ------------------------------------------------------------------ bounds
MaxSignups == 3
MaxTime == 3
MaxPerKey == 2

\* ------------------------------------------------------------- characters
Ascii ==
  << " ", "0", "1", "2", "3", "4", "5", "6", "7", "8", "9", ":",
     "A", "B", "C", "D", "E", "F", "G", "H", "I", "J", "K", "L", "M",
     "N", "O", "P", "Q", "R", "S", "T", "U", "V", "W", "X", "Y", "Z",
     "a", "b", "c", "d", "e", "f", "g", "h", "i", "j", "k", "l", "m",
     "n", "o", "p", "q", "r", "s", "t", "u", "v", "w", "x", "y", "z" >>

Upper ==
  << "A", "B", "C", "D", "E", "F", "G", "H", "I", "J", "K", "L", "M",
     "N", "O", "P", "Q", "R", "S", "T", "U", "V", "W", "X", "Y", "Z" >>

Lowercase ==
  << "a", "b", "c", "d", "e", "f", "g", "h", "i", "j", "k", "l", "m",
     "n", "o", "p", "q", "r", "s", "t", "u", "v", "w", "x", "y", "z" >>

Digits == << "0", "1", "2", "3", "4", "5", "6", "7", "8", "9" >>

Whitespace == {" "}

\* Position of a character in code-point order (ord).
Ord(c) == CHOOSE n \in 1..Len(Ascii) : Ascii[n] = c

\* str.lower() on one character.
LowerChar(c) ==
  IF \E n \in 1..Len(Upper) : Upper[n] = c
  THEN Lowercase[CHOOSE n \in 1..Len(Upper) : Upper[n] = c]
  ELSE c

\* str.lower()
Lower(s) == [n \in 1..Len(s) |-> LowerChar(s[n])]

\* str.strip()
RECURSIVE LStrip(_)
LStrip(s) ==
  IF s # <<>> /\ Head(s) \in Whitespace THEN LStrip(Tail(s)) ELSE s

RECURSIVE RStrip(_)
RStrip(s) ==
  IF s # <<>> /\ s[Len(s)] \in Whitespace
  THEN RStrip(SubSeq(s, 1, Len(s) - 1))
  ELSE s

Strip(s) == RStrip(LStrip(s))

\* str.split() with no argument: the maximal runs of non-whitespace.
RECURSIVE SplitWs(_, _)
SplitWs(s, cur) ==
  IF s = <<>> THEN (IF cur = <<>> THEN <<>> ELSE <<cur>>)
  ELSE IF Head(s) \in Whitespace
       THEN (IF cur = <<>> THEN <<>> ELSE <<cur>>) \o SplitWs(Tail(s), <<>>)
       ELSE SplitWs(Tail(s), Append(cur, Head(s)))

\* str.split(sep) with a one-character separator: empty parts are kept.
RECURSIVE SplitOn(_, _, _)
SplitOn(s, sep, cur) ==
  IF s = <<>> THEN <<cur>>
  ELSE IF Head(s) = sep
       THEN <<cur>> \o SplitOn(Tail(s), sep, <<>>)
       ELSE SplitOn(Tail(s), sep, Append(cur, Head(s)))

\* sep.join(words)
RECURSIVE Join(_, _)
Join(sep, words) ==
  IF words = <<>> THEN <<>>
  ELSE IF Len(words) = 1 THEN words[1]
       ELSE words[1] \o sep \o Join(sep, Tail(words))

\* s.startswith(p)
StartsWith(s, p) == Len(p) <= Len(s) /\ SubSeq(s, 1, Len(p)) = p

\* p in s (substring test)
Contains(s, p) ==
  \E n \in 0..(Len(s) - Len(p)) : SubSeq(s, n + 1, n + Len(p)) = p

\* s < t on str: lexicographic by code point, a proper prefix is smaller.
RECURSIVE StrLess(_, _)
StrLess(s, t) ==
  IF t = <<>> THEN FALSE
  ELSE IF s = <<>> THEN TRUE
  ELSE IF Ord(Head(s)) < Ord(Head(t)) THEN TRUE
  ELSE IF Ord(Head(s)) > Ord(Head(t)) THEN FALSE
  ELSE StrLess(Tail(s), Tail(t))

\* a < b on tuples of int: lexicographic, a proper prefix is smaller.
RECURSIVE TupleLess(_, _)
TupleLess(a, b) ==
  IF b = <<>> THEN FALSE
  ELSE IF a = <<>> THEN TRUE
  ELSE IF Head(a) < Head(b) THEN TRUE
  ELSE IF Head(a) > Head(b) THEN FALSE
  ELSE TupleLess(Tail(a), Tail(b))

Abs(x) == IF x < 0 THEN -x ELSE x

\* int(round(p / 250.0)) for p >= 0: Python 3 rounds a half to the even side.
RoundDiv(p, d) ==
  LET q == p \div d
      r == p % d
  IN  IF 2 * r < d THEN q
      ELSE IF 2 * r > d THEN q + 1
      ELSE IF q % 2 = 0 THEN q ELSE q + 1

\* ------------------------------------------------------------ text literals
StrCasual == << "c", "a", "s", "u", "a", "l" >>
StrIntro == << "i", "n", "t", "r", "o" >>
StrEither == << "e", "i", "t", "h", "e", "r" >>
StrNew == << "n", "e", "w" >>
StrSome == << "s", "o", "m", "e" >>
StrVeteran == << "v", "e", "t", "e", "r", "a", "n" >>
StrExperienced == << "e", "x", "p", "e", "r", "i", "e", "n", "c", "e", "d" >>
StrTOW == << "T", "O", "W" >>
StrHorusHeresy ==
  << "H", "o", "r", "u", "s", " ", "H", "e", "r", "e", "s", "y" >>
SYSTEMS == << StrTOW, StrHorusHeresy >>
StrPending == << "p", "e", "n", "d", "i", "n", "g" >>

\* b_signup_id of a BYE (Python None): signup ids start at 1.
NoSignup == 0
\* best / best_j before a scan has found anybody (Python None).
NoIndex == 0
\* The scan's starting distance component, (99, 99, 99) and (99, ..., 99).
Far == 99
\* Points per bucket in build_match_preference.
BucketSize == 250

\* ----------------------------------------------------------- pairing logic
normalize_name(n) == Join(<< " " >>, SplitWs(Strip(n), <<>>))

\* The candidate key of a signup row: _normalize_name(r.player_name).lower()
NameKey(r) == Lower(normalize_name(r.player_name))

vibe_w(su) == IF StartsWith(Lower(su.vibe), StrCasual) THEN 0 ELSE 1

\* exp_map is scanned in insertion order; the first key found in e_key wins.
exp_w(su) ==
  LET e_key == Lower(Strip(su.experience))
  IN  IF Contains(e_key, StrNew) THEN 0
      ELSE IF Contains(e_key, StrSome) THEN 1
      ELSE IF Contains(e_key, StrVeteran) THEN 2
      ELSE IF Contains(e_key, StrExperienced) THEN 2
      ELSE 1

pts_bucket(su) == RoundDiv(su.points, BucketSize)

build_match_preference(su) == << vibe_w(su), exp_w(su), pts_bucket(su) >>

\* latest_by_name: a dict in insertion order, as a sequence of [key, row].
\* A comparison that keeps the earliest signup of a name.
KeepEarlier(r, prev) == r.created_at < prev.created_at

\* if prev is None or (r.created_at and prev.created_at
\*                     and r.created_at > prev.created_at)
KeepLater(r, prev) == r.created_at > prev.created_at

RECURSIVE LatestByName(_, _)
LatestByName(rs, acc) ==
  IF rs = <<>> THEN acc
  ELSE LET r == Head(rs)
           key == NameKey(r)
           at == {n \in 1..Len(acc) : acc[n].key = key}
       IN  IF at = {}
           THEN LatestByName(Tail(rs), Append(acc, [key |-> key, row |-> r]))
           ELSE LET n == CHOOSE m \in at : TRUE
                IN  IF KeepLater(r, acc[n].row)
                    THEN LatestByName(Tail(rs), [acc EXCEPT ![n].row = r])
                    ELSE LatestByName(Tail(rs), acc)

MatcherSignup(k, v) ==
  [row |-> v, key |-> k, preference |-> build_match_preference(v)]

BuildCandidates(rs) ==
  LET latest == LatestByName(rs, <<>>)
  IN  [n \in 1..Len(latest) |-> MatcherSignup(latest[n].key, latest[n].row)]

IsSeeker(m) == m.row.vibe # <<>> /\ Lower(m.row.vibe) = StrIntro
IsLeader(m) == m.row.can_demo

\* `if system in ("TOW","Horus Heresy")`: the systems with an intro pass
IntroSystems == { StrTOW, StrHorusHeresy }

\* Leaders that leave out whoever asks for an intro game.
LeadersNotSeeking(cands, sys) ==
  LET Kept(m) == IsLeader(m) /\ ~IsSeeker(m)
  IN  SelectSeq(cands, Kept)

\* list comprehensions keep the order of candidates; without an intro pass
\* there is nobody to match
Seekers(cands, sys) ==
  IF sys \in IntroSystems THEN SelectSeq(cands, IsSeeker) ELSE <<>>
Leaders(cands, sys) ==
  IF sys \in IntroSystems THEN SelectSeq(cands, IsLeader) ELSE <<>>

\* A leader distance that looks at the experience first.
PrefDistExperienceFirst(a, b) ==
  << Abs(a.preference[2] - b.preference[2]),
     Abs(a.preference[1] - b.preference[1]),
     Abs(a.preference[3] - b.preference[3]) >>

PrefDist(a, b) ==
  << Abs(a.preference[1] - b.preference[1]),
     Abs(a.preference[2] - b.preference[2]),
     Abs(a.preference[3] - b.preference[3]) >>

\* A leader filter that forgets who is already matched.
LeaderEligibleIgnoringUsed(lead, seeker, usedKeys) == lead.key # seeker.key

\* A leader filter that lets a seeker lead their own intro game.
LeaderEligibleAllowingSelf(lead, seeker, usedKeys) == ~(lead.key \in usedKeys)

LeaderEligible(lead, seeker, usedKeys) ==
  ~(lead.key \in usedKeys \/ lead.key = seeker.key)

\* The inner loop over leaders for one seeker, from leader n on: the index
\* of the chosen leader in lds, NoIndex when there is none.
RECURSIVE LeaderScan(_, _, _, _, _, _)
LeaderScan(seeker, lds, usedKeys, n, best, best_dist) ==
  IF n > Len(lds) THEN best
  ELSE IF ~LeaderEligible(lds[n], seeker, usedKeys)
       THEN LeaderScan(seeker, lds, usedKeys, n + 1, best, best_dist)
       ELSE LET dist == PrefDist(seeker, lds[n])
            IN  IF TupleLess(dist, best_dist)
                THEN IF dist = << 0, 0, 0 >>
                     THEN n
                     ELSE LeaderScan(seeker, lds, usedKeys, n + 1, n, dist)
                ELSE LeaderScan(seeker, lds, usedKeys, n + 1, best, best_dist)

\* The positions in lds for which that loop computes dist, in order.
RECURSIVE LeadersExamined(_, _, _, _, _)
LeadersExamined(seeker, lds, usedKeys, n, best_dist) ==
  IF n > Len(lds) THEN <<>>
  ELSE IF ~LeaderEligible(lds[n], seeker, usedKeys)
       THEN LeadersExamined(seeker, lds, usedKeys, n + 1, best_dist)
       ELSE LET dist == PrefDist(seeker, lds[n])
            IN  IF TupleLess(dist, best_dist)
                THEN IF dist = << 0, 0, 0 >>
                     THEN << n >>
                     ELSE << n >> \o LeadersExamined(seeker, lds, usedKeys, n + 1, dist)
                ELSE << n >> \o LeadersExamined(seeker, lds, usedKeys, n + 1, best_dist)

BestLeader(seeker, lds, usedKeys) ==
  LeaderScan(seeker, lds, usedKeys, 1, NoIndex, << Far, Far, Far >>)

Pairing(w, sys, a, b) ==
  [week |-> w, system |-> sys,
   a_signup_id |-> a.id,
   b_signup_id |-> IF b = <<>> THEN NoSignup ELSE b[1].id,
   status |-> StrPending,
   a_faction |-> a.faction,
   b_faction |-> IF b = <<>> THEN <<>> ELSE b[1].faction]

\* The reverse order: largest preference first.
SortKeyGreater(a, b) ==
  \/ TupleLess(b.preference, a.preference)
  \/ a.preference = b.preference /\ StrLess(b.key, a.key)

\* candidates.sort(key=lambda m: (m.preference, m.key))
SortKeyLess(a, b) ==
  \/ TupleLess(a.preference, b.preference)
  \/ a.preference = b.preference /\ StrLess(a.key, b.key)

RECURSIVE InsertSorted(_, _)
InsertSorted(sorted, m) ==
  IF sorted = <<>> THEN << m >>
  ELSE IF SortKeyLess(m, Head(sorted))
       THEN << m >> \o sorted
       ELSE << Head(sorted) >> \o InsertSorted(Tail(sorted), m)

RECURSIVE SortCandidates(_)
SortCandidates(cands) ==
  IF cands = <<>> THEN <<>>
  ELSE InsertSorted(SortCandidates(SubSeq(cands, 1, Len(cands) - 1)),
                    cands[Len(cands)])

\* Fewest T&T players for the bias to apply: len(tnt_pool) >= 3.
MinTntPool == 3

IsTnt(m) == m.row.tnt_ok

\* No T&T bias: the sorted order is kept.
TntBiasNone(cands, sys, tnt) == cands

\* A T&T bias that does not look at the parity of the pool.
TntBiasAnyParity(cands, sys, tnt) ==
  LET tnt_pool == SelectSeq(cands, IsTnt)
  IN  IF tnt /\ sys = StrTOW /\ Len(tnt_pool) >= MinTntPool
      THEN LET chosen == tnt_pool[Len(tnt_pool)]
               Others(m) == m.key # chosen.key
           IN  SelectSeq(cands, Others) \o << chosen >>
      ELSE cands

\* The T&T bias on the sorted candidates.
TntBias(cands, sys, tnt) ==
  LET tnt_pool == SelectSeq(cands, IsTnt)
  IN  IF tnt /\ sys = StrTOW /\ Len(cands) % 2 = 1 /\ Len(tnt_pool) >= MinTntPool
      THEN LET chosen == tnt_pool[Len(tnt_pool)]
               Others(m) == m.key # chosen.key
           IN  SelectSeq(cands, Others) \o << chosen >>
      ELSE cands

has_played(x, y, seen) ==
  LET a == IF StrLess(y, x) THEN y ELSE x
      b == IF StrLess(y, x) THEN x ELSE y
  IN  << a, b >> \in seen

IsDigits(s) == s # <<>> /\ \A n \in 1..Len(s) : \E d \in 1..Len(Digits) : Digits[d] = s[n]

DigitVal(c) == (CHOOSE d \in 1..Len(Digits) : Digits[d] = c) - 1

RECURSIVE ToNat(_)
ToNat(s) ==
  IF s = <<>> THEN 0
  ELSE 10 * ToNat(SubSeq(s, 1, Len(s) - 1)) + DigitVal(s[Len(s)])

\* _eta_minutes: << minutes >>, or << >> for None. int() accepts digits
\* with surrounding whitespace (no sign character is in the alphabet).
eta_minutes(su) ==
  IF su.eta = <<>> THEN <<>>
  ELSE LET parts == SplitOn(Strip(su.eta), ":", <<>>)
       IN  IF Len(parts) # 2 THEN <<>>
           ELSE IF ~(IsDigits(Strip(parts[1])) /\ IsDigits(Strip(parts[2])))
                THEN <<>>
                ELSE << ToNat(Strip(parts[1])) * 60 + ToNat(Strip(parts[2])) >>

\* A bucket difference that takes an unknown ETA for a perfect fit.
EtaBucketDiffUnknownFits(a_su, b_su) ==
  LET am == eta_minutes(a_su)
      bm == eta_minutes(b_su)
  IN  IF am = <<>> \/ bm = <<>> THEN 0
      ELSE LET d == Abs(am[1] - bm[1])
           IN  IF d <= 15 THEN 0
               ELSE IF d <= 30 THEN 1
               ELSE IF d <= 60 THEN 2
               ELSE 3

eta_bucket_diff(a_su, b_su) ==
  LET am == eta_minutes(a_su)
      bm == eta_minutes(b_su)
  IN  IF am = <<>> \/ bm = <<>> THEN 2
      ELSE LET d == Abs(am[1] - bm[1])
           IN  IF d <= 15 THEN 0
               ELSE IF d <= 30 THEN 1
               ELSE IF d <= 60 THEN 2
               ELSE 3

scenario_diff_tow(a_su, b_su, system_name) ==
  IF system_name # StrTOW THEN 0
  ELSE LET sa == Strip(a_su.scenario)
           sb == Strip(b_su.scenario)
       IN  IF sa = <<>> \/ sb = <<>> THEN 1
           ELSE IF sa = sb THEN 0 ELSE 1

\* A mirror flag that is never raised.
MirrorFlagNever(a_su, b_su) == 0

mirror_flag(a_su, b_su) ==
  LET fa == Lower(Strip(a_su.faction))
      fb == Lower(Strip(b_su.faction))
  IN  IF fa # <<>> /\ fb # <<>> /\ fa = fb THEN 1 ELSE 0

\* An override that compares the vibe weights when nobody chose Either.
VibeDistanceByWeight(a_row, b_row, base_dv) ==
  LET av == Lower(Strip(a_row.vibe))
      bv == Lower(Strip(b_row.vibe))
  IN  IF av = StrIntro \/ bv = StrIntro THEN base_dv
      ELSE IF av = StrEither \/ bv = StrEither THEN 0
      ELSE IF base_dv = 0 THEN 0 ELSE 1

vibe_distance_override(a_row, b_row, base_dv) ==
  LET av == Lower(Strip(a_row.vibe))
      bv == Lower(Strip(b_row.vibe))
  IN  IF av = StrIntro \/ bv = StrIntro THEN base_dv
      ELSE IF av = StrEither \/ bv = StrEither THEN 0
      ELSE IF av = bv THEN 0 ELSE 1

\* A distance in the order the comment above the loop gives: (mirror,
\* scenario, ETA bucket, vibe, experience, points).
DistScenarioBeforeEta(ms, other, sys) ==
  << mirror_flag(ms.row, other.row),
     scenario_diff_tow(ms.row, other.row, sys),
     eta_bucket_diff(ms.row, other.row),
     vibe_distance_override(ms.row, other.row,
                            Abs(ms.preference[1] - other.preference[1])),
     Abs(ms.preference[2] - other.preference[2]),
     Abs(ms.preference[3] - other.preference[3]) >>

\* dist = (mir, eta_b, scen_d, dv, de, dp)
Dist(ms, other, sys) ==
  << mirror_flag(ms.row, other.row),
     eta_bucket_diff(ms.row, other.row),
     scenario_diff_tow(ms.row, other.row, sys),
     vibe_distance_override(ms.row, other.row,
                            Abs(ms.preference[1] - other.preference[1])),
     Abs(ms.preference[2] - other.preference[2]),
     Abs(ms.preference[3] - other.preference[3]) >>

\* A first scan that does not look at the history.
FirstScanSkipsNobody(ms, other, seen) == FALSE

\* A first scan with the history test inverted.
FirstScanSkipsStrangers(ms, other, seen) == ~has_played(ms.key, other.key, seen)

\* A second scan that accepts recent opponents.
SecondScanSkipsNobody(ms, other, seen) == FALSE

\* The history test of the first scan, and the one of the scan that runs
\* when the first found nobody and repeats are allowed.
FirstScanSkips(ms, other, seen) == has_played(ms.key, other.key, seen)
SecondScanSkips(ms, other, seen) == has_played(ms.key, other.key, seen)

\* `if dist == (0,0,0): break` on the six-component dist
PerfectBreak(dist) == dist = << 0, 0, 0 >>

\* One scan over j = from .. len(candidates)-1 for candidates[i]: the index
\* chosen, NoIndex when nobody is found.
RECURSIVE PartnerScan(_, _, _, _, _, _, _, _, _)
PartnerScan(cands, i, usedKeys, seen, sys, second, j, best_j, best_dist) ==
  IF j > Len(cands) THEN best_j
  ELSE LET ms == cands[i]
           other == cands[j]
           skip == \/ other.key \in usedKeys
                   \/ IF second THEN SecondScanSkips(ms, other, seen)
                                ELSE FirstScanSkips(ms, other, seen)
       IN  IF skip
           THEN PartnerScan(cands, i, usedKeys, seen, sys, second,
                            j + 1, best_j, best_dist)
           ELSE LET dist == Dist(ms, other, sys)
                IN  IF TupleLess(dist, best_dist)
                    THEN IF PerfectBreak(dist)
                         THEN j
                         ELSE PartnerScan(cands, i, usedKeys, seen, sys,
                                          second, j + 1, j, dist)
                    ELSE PartnerScan(cands, i, usedKeys, seen, sys, second,
                                     j + 1, best_j, best_dist)

\* The positions j for which that scan computes dist, in order.
RECURSIVE ScanExamined(_, _, _, _, _, _, _, _)
ScanExamined(cands, i, usedKeys, seen, sys, second, j, best_dist) ==
  IF j > Len(cands) THEN <<>>
  ELSE LET ms == cands[i]
           other == cands[j]
           skip == \/ other.key \in usedKeys
                   \/ IF second THEN SecondScanSkips(ms, other, seen)
                                ELSE FirstScanSkips(ms, other, seen)
       IN  IF skip
           THEN ScanExamined(cands, i, usedKeys, seen, sys, second, j + 1, best_dist)
           ELSE LET dist == Dist(ms, other, sys)
                IN  IF TupleLess(dist, best_dist)
                    THEN IF PerfectBreak(dist)
                         THEN << j >>
                         ELSE << j >> \o ScanExamined(cands, i, usedKeys, seen, sys,
                                                      second, j + 1, dist)
                    ELSE << j >> \o ScanExamined(cands, i, usedKeys, seen, sys,
                                                 second, j + 1, best_dist)

FarDist == << Far, Far, Far, Far, Far, Far >>

\* The positions both scans for candidates[i] compute dist for.
PartnersExamined(cands, i, usedKeys, seen, sys, allow) ==
  ScanExamined(cands, i, usedKeys, seen, sys, FALSE, i + 1, FarDist)
    \o (IF PartnerScan(cands, i, usedKeys, seen, sys, FALSE, i + 1, NoIndex, FarDist)
              = NoIndex /\ allow
        THEN ScanExamined(cands, i, usedKeys, seen, sys, TRUE, i + 1, FarDist)
        ELSE <<>>)

\* best_j after both scans for candidates[i]
ChoosePartner(cands, i, usedKeys, seen, sys, allow) ==
  LET first == PartnerScan(cands, i, usedKeys, seen, sys, FALSE,
                           i + 1, NoIndex, FarDist)
  IN  IF first = NoIndex /\ allow
      THEN PartnerScan(cands, i, usedKeys, seen, sys, TRUE,
                       i + 1, NoIndex, FarDist)
      ELSE first

\* ------------------------------------------------------------------ state
VARIABLES
  signups,                   \* the signups table of the week and system: row n has id n
  recent,                    \* pairs previous_pairs_recent derives from the pairings stored before the run
  week, system,              \* arguments of generate_pairings_for_week
  allow_repeats_when_needed, \*   "
  allow_tnt,                 \*   "
  pc,                        \* where the call is: start, intro, general, done
  rows,                      \* the query's result
  candidates,
  seekers, leaders,
  s_idx,                     \* position of the seeker loop
  used_intro,
  intro_pairs,
  seen_pairs,
  used,
  i,                         \* position of the general loop
  out,                       \* the list returned
  scanned,                   \* positions whose dist the latest inner scan computed, in order
  pairings,                  \* the pairings table: rows committed, in order
  other,                     \* a second call in progress, while it does not run; or the presses still to come
  cache                      \* st.cache_data of previous_pairs_recent: entries not yet expired

vars ==
  << signups, recent, week, system, allow_repeats_when_needed, allow_tnt, pc,
     rows, candidates, seekers, leaders, s_idx, used_intro, intro_pairs,
     seen_pairs, used, i, out, scanned, pairings, other, cache >>

inputs ==
  << signups, recent, week, system, allow_repeats_when_needed, allow_tnt, other >>

\* A query without order_by: the matching rows in any order.
QueryUnordered(tbl, w, sys) ==
  LET match == {n \in 1..Len(tbl) : tbl[n].week = w /\ tbl[n].system = sys}
      k == Cardinality(match)
  IN  { [n \in 1..k |-> tbl[f[n]]] :
          f \in { g \in [1..k -> match] :
                    \A a, b \in 1..k : a # b => g[a] # g[b] } }

\* A query that orders by created_at but reads the signups of every key.
QueryIgnoringKey(tbl, w, sys) ==
  { [n \in 1..Len(tbl) |-> tbl[g[n]]] :
      g \in { f \in [1..Len(tbl) -> 1..Len(tbl)] :
                /\ \A a, b \in 1..Len(tbl) : a # b => f[a] # f[b]
                /\ \A a, b \in 1..Len(tbl) :
                     a < b => tbl[f[a]].created_at <= tbl[f[b]].created_at } }

\* select(Signup).where(week, system).order_by(created_at): the matching
\* rows in any order that is ascending in created_at; the order of rows
\* with equal created_at is the database's choice.
QueryOrders(tbl, w, sys) ==
  LET match == {n \in 1..Len(tbl) : tbl[n].week = w /\ tbl[n].system = sys}
      k == Cardinality(match)
  IN  { [n \in 1..k |-> tbl[f[n]]] :
          f \in { g \in [1..k -> match] :
                    /\ \A a, b \in 1..k : a # b => g[a] # g[b]
                    /\ \A a, b \in 1..k :
                         a < b => tbl[g[a]].created_at <= tbl[g[b]].created_at } }

\* The unordered key pair of a stored pairing, as previous_pairs_recent adds it.
SortedPair(x, y) == IF StrLess(y, x) THEN << y, x >> ELSE << x, y >>

IsLeap(y) == (y % 4 = 0 /\ y % 100 # 0) \/ y % 400 = 0

DaysInMonth(m, y) ==
  IF m = 2 THEN (IF IsLeap(y) THEN 29 ELSE 28)
  ELSE IF m \in {4, 6, 9, 11} THEN 30 ELSE 31

RECURSIVE DaysBeforeMonth(_, _)
DaysBeforeMonth(m, y) ==
  IF m <= 1 THEN 0 ELSE DaysBeforeMonth(m - 1, y) + DaysInMonth(m - 1, y)

\* date.toordinal(): days since 0001-01-01, that day being 1.
ToOrdinal(y, m, d) ==
  365 * (y - 1) + ((y - 1) \div 4) - ((y - 1) \div 100) + ((y - 1) \div 400)
    + DaysBeforeMonth(m, y) + d

\* parse_week_id: << ordinal of the date >>, or << >> when strptime raises.
\* "%d/%m/%Y" takes one or two digits for day and month, four for the year.
parse_week_id(week_str) ==
  LET parts == SplitOn(Strip(week_str), "/", <<>>)
  IN  IF Len(parts) # 3 THEN <<>>
      ELSE IF ~(IsDigits(parts[1]) /\ IsDigits(parts[2]) /\ IsDigits(parts[3]))
      THEN <<>>
      ELSE IF ~(Len(parts[1]) <= 2 /\ Len(parts[2]) <= 2 /\ Len(parts[3]) = 4)
      THEN <<>>
      ELSE LET d == ToNat(parts[1])
               m == ToNat(parts[2])
               y == ToNat(parts[3])
           IN  IF y >= 1 /\ m \in 1..12 /\ d >= 1 /\ d <= DaysInMonth(m, y)
               THEN << ToOrdinal(y, m, d) >>
               ELSE <<>>

\* max_weeks: int = 2
MaxWeeks == 2

\* A test that counts the pairings of every system.
CountsAnySystem(pr, tbl, sys, current_dt) ==
  /\ pr.b_signup_id # NoSignup
  /\ parse_week_id(pr.week) # <<>>
  /\ Abs(current_dt - parse_week_id(pr.week)[1]) \div 7 <= MaxWeeks
  /\ NameKey(tbl[pr.a_signup_id]) # NameKey(tbl[pr.b_signup_id])

\* A test that counts only the pairings of the current week and of the
\* weeks before it.
CountsEarlierWeeksOnly(pr, tbl, sys, current_dt) ==
  /\ pr.system = sys
  /\ pr.b_signup_id # NoSignup
  /\ parse_week_id(pr.week) # <<>>
  /\ current_dt >= parse_week_id(pr.week)[1]
  /\ (current_dt - parse_week_id(pr.week)[1]) \div 7 <= MaxWeeks
  /\ pr.a_signup_id \in 1..Len(tbl)
  /\ pr.b_signup_id \in 1..Len(tbl)
  /\ NameKey(tbl[pr.a_signup_id]) # NameKey(tbl[pr.b_signup_id])

\* Whether previous_pairs_recent(sys, current) counts the stored pairing pr:
\* of the system, not a BYE, its week parsed and within max_weeks of the
\* current one (before or after), both signups still in the table (row n
\* has id n), between two different names.
CountsAsRecent(pr, tbl, sys, current_dt) ==
  /\ pr.system = sys
  /\ pr.b_signup_id # NoSignup
  /\ parse_week_id(pr.week) # <<>>
  /\ Abs(current_dt - parse_week_id(pr.week)[1]) \div 7 <= MaxWeeks
  /\ pr.a_signup_id \in 1..Len(tbl)
  /\ pr.b_signup_id \in 1..Len(tbl)
  /\ NameKey(tbl[pr.a_signup_id]) # NameKey(tbl[pr.b_signup_id])

\* previous_pairs_recent(system, current_week): the pairs `old` of pairings
\* stored before the model's first state, and those of the pairings table
\* `stored`.
previous_pairs_recent(old, stored, tbl, sys, current_week) ==
  IF parse_week_id(current_week) = <<>> THEN {}
  ELSE old \cup
       { SortedPair(NameKey(tbl[p.a_signup_id]), NameKey(tbl[p.b_signup_id])) :
           p \in { stored[n] : n \in { m \in 1..Len(stored) :
                     CountsAsRecent(stored[m], tbl, sys,
                                    parse_week_id(current_week)[1]) } } }

\* @st.cache_data(ttl=180) on previous_pairs_recent: a call with arguments
\* (system, current_week) that an entry of the cache `cch` was made for returns
\* the entry's value and computes nothing; any other call computes the value
\* and makes an entry for it.
cached_previous_pairs_recent(cch, old, stored, tbl, sys, current_week) ==
  LET hits == { e \in cch : e.system = sys /\ e.current_week = current_week }
  IN  IF hits # {}
      THEN [value |-> (CHOOSE e \in hits : TRUE).value, cache |-> cch]
      ELSE LET v == previous_pairs_recent(old, stored, tbl, sys, current_week)
           IN  [value |-> v,
                cache |-> cch \cup { [system |-> sys, current_week |-> current_week,
                                      value |-> v] }]

\* lines 888-913: the body of `for seeker in seekers`, on the loop's state
\* st = [used_intro, intro_pairs]
IntroStep(st, seeker, lds, w, sys) ==
  IF seeker.key \in st.used_intro THEN st
  ELSE LET best == BestLeader(seeker, lds, st.used_intro)
       IN  IF best = NoIndex THEN st
           ELSE [used_intro |-> st.used_intro \cup {seeker.key, lds[best].key},
                 intro_pairs |-> Append(st.intro_pairs,
                                        Pairing(w, sys, seeker.row, << lds[best].row >>))]

\* A filter that also drops every seeker, matched or not.
RemainingDroppingSeekers(cands, usedKeys) ==
  LET Kept(m) == m.key \notin usedKeys /\ ~IsSeeker(m)
  IN  SelectSeq(cands, Kept)

\* A removal that takes the matched leaders out and leaves the seekers in.
RemainingKeepingSeekers(cands, usedKeys) ==
  LET Kept(m) == m.key \notin usedKeys \/ IsSeeker(m)
  IN  SelectSeq(cands, Kept)

\* line 914: candidates = [m for m in candidates if m.key not in used_intro]
RemainingAfterIntro(cands, usedKeys) ==
  LET NotUsed(m) == m.key \notin usedKeys
  IN  SelectSeq(cands, NotUsed)

\* A loop body that puts each new result at the head of the list.
GeneralStepPrepending(st, cands, n, seen, sys, allow, w) ==
  LET ms == cands[n]
  IN  IF ms.key \in st.used THEN st
      ELSE LET best_j == ChoosePartner(cands, n, st.used, seen, sys, allow)
           IN  IF best_j = NoIndex
               THEN [used |-> st.used \cup {ms.key},
                     out |-> << Pairing(w, sys, ms.row, <<>>) >> \o st.out]
               ELSE [used |-> st.used \cup {ms.key, cands[best_j].key},
                     out |-> << Pairing(w, sys, ms.row, << cands[best_j].row >>) >>
                               \o st.out]

\* A loop body that marks only candidate i used when it makes a pair.
GeneralStepPartnerLeftUnused(st, cands, n, seen, sys, allow, w) ==
  LET ms == cands[n]
  IN  IF ms.key \in st.used THEN st
      ELSE LET best_j == ChoosePartner(cands, n, st.used, seen, sys, allow)
           IN  IF best_j = NoIndex
               THEN [used |-> st.used \cup {ms.key},
                     out |-> Append(st.out, Pairing(w, sys, ms.row, <<>>))]
               ELSE [used |-> st.used \cup {ms.key},
                     out |-> Append(st.out,
                                    Pairing(w, sys, ms.row, << cands[best_j].row >>))]

\* lines 992-1061: the body of `for i, ms in enumerate(candidates)`, on the
\* loop's state st = [used, out]
GeneralStep(st, cands, n, seen, sys, allow, w) ==
  LET ms == cands[n]
  IN  IF ms.key \in st.used THEN st
      ELSE LET best_j == ChoosePartner(cands, n, st.used, seen, sys, allow)
           IN  IF best_j = NoIndex
               THEN [used |-> st.used \cup {ms.key},
                     out |-> Append(st.out, Pairing(w, sys, ms.row, <<>>))]
               ELSE [used |-> st.used \cup {ms.key, cands[best_j].key},
                     out |-> Append(st.out,
                                    Pairing(w, sys, ms.row, << cands[best_j].row >>))]

\* lines 860-886: query, de-duplicate, build candidates, split seekers and leaders
Load ==
  /\ pc = "start"
  /\ \E order \in QueryOrders(signups, week, system) :
       /\ rows' = order
       /\ candidates' = BuildCandidates(order)
  /\ IF candidates' = <<>>
     THEN /\ pc' = "done"
          /\ UNCHANGED << seekers, leaders >>
     ELSE /\ pc' = "intro"
          /\ seekers' = Seekers(candidates', system)
          /\ leaders' = Leaders(candidates', system)
  /\ UNCHANGED << inputs, s_idx, used_intro, intro_pairs, seen_pairs, used, i,
                  out, scanned, pairings, cache >>

\* lines 887-913: one iteration of `for seeker in seekers`; a pairing made
\* is committed at once
IntroSeeker ==
  /\ pc = "intro"
  /\ s_idx <= Len(seekers)
  /\ \E st \in { IntroStep([used_intro |-> used_intro, intro_pairs |-> intro_pairs],
                           seekers[s_idx], leaders, week, system) } :
       /\ used_intro' = st.used_intro
       /\ intro_pairs' = st.intro_pairs
       /\ pairings' = pairings \o SubSeq(st.intro_pairs, Len(intro_pairs) + 1,
                                         Len(st.intro_pairs))
  /\ scanned' = IF seekers[s_idx].key \in used_intro THEN scanned
                 ELSE LeadersExamined(seekers[s_idx], leaders, used_intro,
                                      1, << Far, Far, Far >>)
  /\ s_idx' = s_idx + 1
  /\ UNCHANGED << inputs, pc, rows, candidates, seekers, leaders, seen_pairs,
                  used, i, out, cache >>

\* lines 914-933: drop the matched, sort, T&T bias, read the history
AfterIntro ==
  /\ pc = "intro"
  /\ s_idx > Len(seekers)
  /\ candidates' = TntBias(SortCandidates(RemainingAfterIntro(candidates, used_intro)),
                           system, allow_tnt)
  /\ LET read == cached_previous_pairs_recent(cache, recent, pairings, signups,
                                              system, week)
     IN  /\ seen_pairs' = read.value
         /\ cache' = read.cache
  /\ used' = {}
  /\ out' = intro_pairs
  /\ i' = 1
  /\ pc' = "general"
  /\ UNCHANGED << inputs, rows, seekers, leaders, s_idx, used_intro,
                  intro_pairs, scanned, pairings >>

\* lines 991-1061: one iteration of `for i, ms in enumerate(candidates)`; the
\* pairing or BYE made is committed at once
GeneralIter ==
  /\ pc = "general"
  /\ i <= Len(candidates)
  /\ \E st \in { GeneralStep([used |-> used, out |-> out], candidates, i,
                             seen_pairs, system, allow_repeats_when_needed, week) } :
       /\ used' = st.used
       /\ out' = st.out
       /\ pairings' = pairings \o SubSeq(st.out, Len(out) + 1, Len(st.out))
  /\ scanned' = IF candidates[i].key \in used THEN scanned
                 ELSE PartnersExamined(candidates, i, used, seen_pairs, system,
                                       allow_repeats_when_needed)
  /\ i' = i + 1
  /\ UNCHANGED << inputs, pc, rows, candidates, seekers, leaders, s_idx,
                  used_intro, intro_pairs, seen_pairs, cache >>

\* line 1063: return out
Return ==
  /\ pc = "general"
  /\ i > Len(candidates)
  /\ pc' = "done"
  /\ UNCHANGED << inputs, rows, candidates, seekers, leaders, s_idx,
                  used_intro, intro_pairs, seen_pairs, used, i, out, scanned,
                  pairings, cache >>

\* ---------------------------------------------------- the call as a function
RECURSIVE IntroLoop(_, _, _, _, _, _)
IntroLoop(st, sks, k, lds, w, sys) ==
  IF k > Len(sks) THEN st
  ELSE IntroLoop(IntroStep(st, sks[k], lds, w, sys), sks, k + 1, lds, w, sys)

RECURSIVE GeneralLoop(_, _, _, _, _, _, _)
GeneralLoop(st, cands, n, seen, sys, allow, w) ==
  IF n > Len(cands) THEN st
  ELSE GeneralLoop(GeneralStep(st, cands, n, seen, sys, allow, w),
                   cands, n + 1, seen, sys, allow, w)

\* The list generate_pairings_for_week returns when its query yields `order`
\* and the pairings table holds `stored` and nobody else writes to it.
EngineOn(order, tbl, old, stored, w, sys, allow, tnt) ==
  LET cands == BuildCandidates(order)
  IN  IF cands = <<>> THEN <<>>
      ELSE LET intro == IntroLoop([used_intro |-> {}, intro_pairs |-> <<>>],
                                  Seekers(cands, sys), 1, Leaders(cands, sys), w, sys)
               pool == TntBias(SortCandidates(RemainingAfterIntro(cands, intro.used_intro)),
                               sys, tnt)
               seen == previous_pairs_recent(old, stored \o intro.intro_pairs,
                                             tbl, sys, w)
           IN  GeneralLoop([used |-> {}, out |-> intro.intro_pairs], pool, 1,
                           seen, sys, allow, w).out

\* The same with an empty pairings table.
Engine(order, tbl, old, w, sys, allow, tnt) ==
  EngineOn(order, tbl, old, <<>>, w, sys, allow, tnt)

\* ------------------------------------------------------------------ inputs
WeekId == << "0", "5", "/", "1", "1", "/", "2", "0", "2", "5" >>

Profile(v, e, pts, f, t, sc, tnt, demo) ==
  [vibe |-> v, experience |-> e, points |-> pts, faction |-> f, eta |-> t,
   scenario |-> sc, tnt_ok |-> tnt, can_demo |-> demo]

\* A row of the signups table.
Signup(n, t, w, sys, name, prof) ==
  [id |-> n, created_at |-> t, week |-> w, system |-> sys,
   player_name |-> name,
   faction |-> prof.faction, points |-> prof.points, eta |-> prof.eta,
   experience |-> prof.experience, vibe |-> prof.vibe,
   tnt_ok |-> prof.tnt_ok, scenario |-> prof.scenario,
   can_demo |-> prof.can_demo]

Keys(tbl) == { NameKey(tbl[n]) : n \in 1..Len(tbl) }

KeyPairs(tbl) ==
  { SortedPair(x, y) : x, y \in Keys(tbl) } \ { << x, x >> : x \in Keys(tbl) }

\* No second call.
NoCall == <<>>

\* What a call has computed before its first step.
Fresh ==
  /\ pc = "start"
  /\ rows = <<>>
  /\ candidates = <<>>
  /\ seekers = <<>>
  /\ leaders = <<>>
  /\ s_idx = 1
  /\ used_intro = {}
  /\ intro_pairs = <<>>
  /\ seen_pairs = {}
  /\ used = {}
  /\ i = 1
  /\ out = <<>>
  /\ scanned = <<>>

\* Who signed up, when, and with what answers: a sequence of
\* [name, created_at, prof], in order of id.
Entry(name, t, prof) == [name |-> name, created_at |-> t, prof |-> prof]

\* created_at of rows 1..n, ids being issued in order of creation: each
\* signup at its own instant, or at instants that may coincide.
DistinctStamps(n) == { [k \in 1..n |-> k] }
AnyStamps(n) ==
  { tm \in [1..n -> 1..MaxTime] : \A a, b \in 1..n : a < b => tm[a] <= tm[b] }

\* Names in alphabetical order of signing up, or in the reverse one.
Monotone(nm) ==
  \/ \A a, b \in 1..Len(nm) : a < b => StrLess(nm[a], nm[b])
  \/ \A a, b \in 1..Len(nm) : a < b => StrLess(nm[b], nm[a])

\* The table holding the signups of a form, for the week and system called.
SignupsOf(form) ==
  [k \in 1..Len(form) |->
     Signup(k, form[k].created_at, week, system, form[k].name, form[k].prof)]

\* The state before a call: the signups of the week and system, a history,
\* the arguments of the call, nothing computed yet.
InitWith(Names, inOrder, ties, Profiles, Systems, Repeats, Tnts, withHistory) ==
  /\ week = WeekId
  /\ system \in Systems
  /\ allow_repeats_when_needed \in Repeats
  /\ allow_tnt \in Tnts
  /\ \E n \in 0..MaxSignups :
       \E nm \in { f \in [1..n -> Names] : inOrder => Monotone(f) } :
         \E tm \in (IF ties THEN AnyStamps(n) ELSE DistinctStamps(n)) :
           \E pf \in [1..n -> Profiles] :
             signups = SignupsOf([k \in 1..n |-> Entry(nm[k], tm[k], pf[k])])
  /\ recent \in (IF withHistory THEN SUBSET KeyPairs(signups) ELSE { {} })
  /\ pairings = <<>>
  /\ other = NoCall
  /\ cache = {}
  /\ Fresh

StrCasualUi == << "C", "a", "s", "u", "a", "l" >>
StrCompetitiveUi == << "C", "o", "m", "p", "e", "t", "i", "t", "i", "v", "e" >>
StrIntroUi == << "I", "n", "t", "r", "o" >>
StrEitherUi == << "E", "i", "t", "h", "e", "r" >>
StrNewUi == << "N", "e", "w" >>
StrVeteranUi == << "V", "e", "t", "e", "r", "a", "n" >>
StrOrcs == << "O", "r", "c", "s" >>
StrElves == << "E", "l", "v", "e", "s" >>

\* ---- Matching with history and intro games: up to MaxSignups signups of
\* three players at distinct times, any history among them.
MatchNames == { << "a" >>, << "b" >>, << "c" >> }

PlainCasual ==
  Profile(StrCasualUi, StrNewUi, 2000, <<>>, <<>>, <<>>, FALSE, FALSE)
PlainCompetitive ==
  Profile(StrCompetitiveUi, StrVeteranUi, 4000, <<>>, <<>>, <<>>, FALSE, FALSE)
IntroSeekerProfile ==
  Profile(StrIntroUi, StrNewUi, 1000, <<>>, <<>>, <<>>, FALSE, FALSE)
DemoLeader ==
  Profile(StrCasualUi, StrVeteranUi, 2000, <<>>, <<>>, <<>>, FALSE, TRUE)
SeekerAndLeader ==
  Profile(StrIntroUi, StrNewUi, 2000, <<>>, <<>>, <<>>, FALSE, TRUE)

MatchProfiles ==
  { PlainCasual, PlainCompetitive, IntroSeekerProfile, DemoLeader, SeekerAndLeader }

\* The worked example of intro priority: seeker s, leader l, casual a and b.
IntroExample ==
  << Entry(<< "s" >>, 1, IntroSeekerProfile), Entry(<< "l" >>, 2, DemoLeader),
     Entry(<< "a" >>, 3, PlainCasual), Entry(<< "b" >>, 4, PlainCasual) >>

InitExample ==
  /\ week = WeekId
  /\ system = StrTOW
  /\ allow_repeats_when_needed = TRUE
  /\ allow_tnt = TRUE
  /\ signups = SignupsOf(IntroExample)
  /\ recent = {}
  /\ pairings = <<>>
  /\ other = NoCall
  /\ cache = {}
  /\ Fresh

Init ==
  \/ InitWith(MatchNames, FALSE, FALSE, MatchProfiles,
              { StrTOW, StrHorusHeresy }, BOOLEAN, { TRUE }, TRUE)
  \/ InitExample

Next == Load \/ IntroSeeker \/ AfterIntro \/ GeneralIter \/ Return

Spec == Init /\ [][Next]_vars

\* ---- Order of the signups: names that differ in case and spacing, signups
\* that may share their created_at, intro seekers and leaders, no history.
OrderNames ==
  { << "a" >>, << "A", " " >>, << "b" >>, << " ", "a", " ", " ", "B" >> }

OrderProfiles == { PlainCasual, IntroSeekerProfile, DemoLeader }

InitOrder ==
  InitWith(OrderNames, FALSE, TRUE, OrderProfiles, { StrTOW }, { TRUE }, { TRUE }, FALSE)

SpecOrder == InitOrder /\ [][Next]_vars

\* ---- Preferences: players a, b, c signing up in alphabetical order or in
\* the reverse one, with any answers for vibe, experience, points and
\* faction, no history.
PrefProfiles ==
  { Profile(v, e, pts, f, <<>>, <<>>, FALSE, FALSE) :
      v \in { StrCasualUi, StrCompetitiveUi, StrEitherUi },
      e \in { StrNewUi, StrVeteranUi },
      pts \in { 2000, 4000 },
      f \in { <<>>, StrOrcs } }
  \cup { IntroSeekerProfile }

InitPrefs ==
  InitWith(MatchNames, TRUE, FALSE, PrefProfiles, { StrTOW }, { FALSE }, { TRUE }, FALSE)

SpecPrefs == InitPrefs /\ [][Next]_vars

\* ---- Two calls for different (week, system) keys over one signups table
\* and one pairings table: the call that runs, and a second one that takes
\* turns with it at any point between two steps.
StrWeekNext == << "1", "2", "/", "1", "1", "/", "2", "0", "2", "5" >>
StrWeekFar == << "2", "6", "/", "1", "1", "/", "2", "0", "2", "5" >>

\* The arguments and locals of the call that runs.
Frame ==
  [week |-> week, system |-> system,
   allow_repeats_when_needed |-> allow_repeats_when_needed,
   allow_tnt |-> allow_tnt, pc |-> pc, rows |-> rows,
   candidates |-> candidates, seekers |-> seekers, leaders |-> leaders,
   s_idx |-> s_idx, used_intro |-> used_intro, intro_pairs |-> intro_pairs,
   seen_pairs |-> seen_pairs, used |-> used, i |-> i, out |-> out,
   scanned |-> scanned]

\* Those of a call that has not taken a step.
FreshFrame(w, sys, allow, tnt) ==
  [week |-> w, system |-> sys, allow_repeats_when_needed |-> allow,
   allow_tnt |-> tnt, pc |-> "start", rows |-> <<>>, candidates |-> <<>>,
   seekers |-> <<>>, leaders |-> <<>>, s_idx |-> 1, used_intro |-> {},
   intro_pairs |-> <<>>, seen_pairs |-> {}, used |-> {}, i |-> 1, out |-> <<>>,
   scanned |-> <<>>]

\* The two calls take turns: the one that ran waits, the other one runs.
\* Neither holds a lock between its steps; the tables are shared.
Switch ==
  /\ other # NoCall
  /\ other' = << Frame >>
  /\ week' = other[1].week
  /\ system' = other[1].system
  /\ allow_repeats_when_needed' = other[1].allow_repeats_when_needed
  /\ allow_tnt' = other[1].allow_tnt
  /\ pc' = other[1].pc
  /\ rows' = other[1].rows
  /\ candidates' = other[1].candidates
  /\ seekers' = other[1].seekers
  /\ leaders' = other[1].leaders
  /\ s_idx' = other[1].s_idx
  /\ used_intro' = other[1].used_intro
  /\ intro_pairs' = other[1].intro_pairs
  /\ seen_pairs' = other[1].seen_pairs
  /\ used' = other[1].used
  /\ i' = other[1].i
  /\ out' = other[1].out
  /\ scanned' = other[1].scanned
  /\ UNCHANGED << signups, recent, pairings, cache >>

\* Keys other than (WeekId, TOW): the next week, three weeks later, and the
\* same week of the other system.
OtherKeys ==
  { [week |-> StrWeekNext, system |-> StrTOW],
    [week |-> StrWeekFar, system |-> StrTOW],
    [week |-> WeekId, system |-> StrHorusHeresy] }

KeyNames == { << "a" >>, << "b" >> }

KeyProfiles == { PlainCasual, IntroSeekerProfile }

\* Up to MaxPerKey signups for the key of each call, those of the second
\* call first; no pairing stored yet.
InitKeys ==
  /\ week = WeekId
  /\ system = StrTOW
  /\ allow_repeats_when_needed = TRUE
  /\ allow_tnt = TRUE
  /\ \E k1 \in OtherKeys :
       \E n1 \in 0..MaxPerKey : \E n2 \in 0..MaxPerKey :
         \E nm \in [1..(n1 + n2) -> KeyNames] :
           \E pf \in [1..(n1 + n2) -> KeyProfiles] :
             /\ signups = [k \in 1..(n1 + n2) |->
                             Signup(k, k,
                                    IF k <= n1 THEN k1.week ELSE week,
                                    IF k <= n1 THEN k1.system ELSE system,
                                    nm[k], pf[k])]
             /\ other = << FreshFrame(k1.week, k1.system, TRUE, TRUE) >>
  /\ recent = {}
  /\ pairings = <<>>
  /\ cache = {}
  /\ Fresh

NextKeys == Next \/ Switch

SpecKeys == InitKeys /\ [][NextKeys]_vars

\* ---- Arrival times: players a, b, c with ETA texts that are times of the
\* day, missing, or not of the form HH:MM; next to each text, the minutes
\* after midnight it stands for (none when it is not a time).
EtaCases ==
  { [text |-> <<>>, minutes |-> <<>>],
    [text |-> << "1", "8", ":", "0", "0" >>, minutes |-> << 1080 >>],
    [text |-> << "1", "8", ":", "1", "5" >>, minutes |-> << 1095 >>],
    [text |-> << "1", "8", ":", "1", "6" >>, minutes |-> << 1096 >>],
    [text |-> << "1", "8", ":", "3", "0" >>, minutes |-> << 1110 >>],
    [text |-> << "1", "8", ":", "3", "1" >>, minutes |-> << 1111 >>],
    [text |-> << "1", "9", ":", "0", "0" >>, minutes |-> << 1140 >>],
    [text |-> << "1", "9", ":", "0", "1" >>, minutes |-> << 1141 >>],
    [text |-> << " ", "1", "8", ":", "0", "5", " " >>, minutes |-> << 1085 >>],
    [text |-> << "7", "p", "m" >>, minutes |-> <<>>],
    [text |-> << "1", "8", ":" >>, minutes |-> <<>>],
    [text |-> << "1", "8", ":", "0", "0", ":", "0", "0" >>, minutes |-> <<>>] }

EtaProfiles ==
  { Profile(StrCasualUi, StrNewUi, 2000, <<>>, c.text, <<>>, FALSE, FALSE) :
      c \in EtaCases }
  \cup { IntroSeekerProfile }

InitEta ==
  InitWith(MatchNames, TRUE, FALSE, EtaProfiles, { StrTOW }, { TRUE }, { TRUE }, FALSE)

SpecEta == InitEta /\ [][Next]_vars

\* ---- Distances: players a, b, c whose answers are those of one player
\* or differ from them in one answer (faction, ETA, scenario, vibe,
\* experience or points), any history among them.
StrOpenBattle == << "O", "p", "e", "n", " ", "B", "a", "t", "t", "l", "e" >>
StrWeeklyScenario ==
  << "W", "e", "e", "k", "l", "y", " ", "S", "c", "e", "n", "a", "r", "i", "o" >>
StrSixPm == << "1", "8", ":", "0", "0" >>
StrTwentyPastSix == << "1", "8", ":", "2", "0" >>

DistProfiles ==
  { Profile(StrCasualUi, StrNewUi, 2000, StrOrcs, StrSixPm, StrOpenBattle, FALSE, FALSE),
    Profile(StrCasualUi, StrNewUi, 2000, StrElves, StrSixPm, StrOpenBattle, FALSE, FALSE),
    Profile(StrCasualUi, StrNewUi, 2000, StrOrcs, StrTwentyPastSix, StrOpenBattle, FALSE, FALSE),
    Profile(StrCasualUi, StrNewUi, 2000, StrOrcs, StrSixPm, StrWeeklyScenario, FALSE, FALSE),
    Profile(StrCompetitiveUi, StrNewUi, 2000, StrOrcs, StrSixPm, StrOpenBattle, FALSE, FALSE),
    Profile(StrCasualUi, StrVeteranUi, 2000, StrOrcs, StrSixPm, StrOpenBattle, FALSE, FALSE),
    Profile(StrCasualUi, StrNewUi, 2250, StrOrcs, StrSixPm, StrOpenBattle, FALSE, FALSE),
    IntroSeekerProfile }

InitDist ==
  InitWith(MatchNames, TRUE, FALSE, DistProfiles, { StrTOW }, BOOLEAN, { TRUE }, TRUE)

SpecDist == InitDist /\ [][Next]_vars

\* ---- Intro games: players a, b, c who ask for an intro game, lead demos
\* with any vibe, experience and points, or do both; no history.
LeaderProfiles ==
  { Profile(v, e, pts, <<>>, <<>>, <<>>, FALSE, TRUE) :
      v \in { StrCasualUi, StrCompetitiveUi },
      e \in { StrNewUi, StrVeteranUi },
      pts \in { 1000, 1250 } }
  \cup { IntroSeekerProfile, SeekerAndLeader, PlainCasual }

InitLeaders ==
  InitWith(MatchNames, TRUE, FALSE, LeaderProfiles, { StrTOW, StrHorusHeresy },
           { TRUE }, { TRUE }, FALSE)

SpecLeaders == InitLeaders /\ [][Next]_vars

\* ---- Vibes: players a, b, c who differ in their vibe only: one the form
\* offers, one typed into the admin table with a space before it, or none.
StrCasualSpaced == << " ", "C", "a", "s", "u", "a", "l" >>

VibeProfiles ==
  { Profile(v, StrNewUi, 2000, <<>>, <<>>, <<>>, FALSE, FALSE) :
      v \in { StrCasualUi, StrCompetitiveUi, StrEitherUi, StrIntroUi,
              StrCasualSpaced, <<>> } }

InitVibes ==
  InitWith(MatchNames, TRUE, FALSE, VibeProfiles, { StrTOW }, { TRUE }, { TRUE }, FALSE)

SpecVibes == InitVibes /\ [][Next]_vars

\* ---- Mirrors: players a, b, c with a faction written in one of two
\* ways, another faction or none, and either the same other answers or
\* other answers that all differ; any history among them.
StrOrcsTyped == << "o", "r", "c", "s", " " >>

MirrorProfiles ==
  { Profile(StrCasualUi, StrNewUi, 2000, f, StrSixPm, StrOpenBattle, FALSE, FALSE) :
      f \in { StrOrcs, StrOrcsTyped, StrElves, <<>> } }
  \cup
  { Profile(StrCompetitiveUi, StrVeteranUi, 4000, f, StrTwentyPastSix,
            StrWeeklyScenario, FALSE, FALSE) :
      f \in { StrOrcs, StrOrcsTyped, StrElves, <<>> } }
  \cup { IntroSeekerProfile }

InitMirror ==
  InitWith(MatchNames, TRUE, FALSE, MirrorProfiles, { StrTOW }, BOOLEAN, { TRUE }, TRUE)

SpecMirror == InitMirror /\ [][Next]_vars

\* ---- Three-way games: up to MaxTntSignups players a, b, c, ... signing
\* up in that order, each alike but for being happy with a three-way game,
\* asking for an intro game or leading demos; no history.
MaxTntSignups == 5

TntNames ==
  << << "a" >>, << "b" >>, << "c" >>, << "d" >>, << "e" >>, << "f" >> >>

TntCasual ==
  Profile(StrCasualUi, StrNewUi, 2000, <<>>, <<>>, <<>>, TRUE, FALSE)

TntProfiles == { PlainCasual, TntCasual, IntroSeekerProfile, DemoLeader }

InitTnt ==
  /\ week = WeekId
  /\ system \in { StrTOW, StrHorusHeresy }
  /\ allow_repeats_when_needed = TRUE
  /\ allow_tnt \in BOOLEAN
  /\ \E n \in 0..MaxTntSignups :
       \E pf \in [1..n -> TntProfiles] :
         signups = SignupsOf([k \in 1..n |-> Entry(TntNames[k], k, pf[k])])
  /\ recent = {}
  /\ pairings = <<>>
  /\ other = NoCall
  /\ cache = {}
  /\ Fresh

SpecTnt == InitTnt /\ [][Next]_vars

\* ---- Stored pairings: players a, b (or a again, typed "A "), c and up
\* to MaxStored pairings stored before the call, of signup 1 with nobody,
\* itself, signup 2, 3 or a deleted one, for TOW or Horus Heresy, in a
\* week given by a text; next to each text, the days from 05/11/2025 to
\* the date it stands for (none when it is not a date).
MaxStored == 2

HistoryWeeks ==
  { [text |-> WeekId, days |-> << 0 >>],
    [text |-> << "2", "2", "/", "1", "0", "/", "2", "0", "2", "5" >>, days |-> << -14 >>],
    [text |-> << "1", "6", "/", "1", "0", "/", "2", "0", "2", "5" >>, days |-> << -20 >>],
    [text |-> << "1", "5", "/", "1", "0", "/", "2", "0", "2", "5" >>, days |-> << -21 >>],
    [text |-> StrWeekNext, days |-> << 7 >>],
    [text |-> << "2", "0", "2", "5", "-", "1", "1", "-", "0", "5" >>, days |-> <<>>] }

StrWeekBad == << "n", "e", "x", "t", " ", "w", "e", "e", "k" >>

StoredRows ==
  { [week |-> w.text, system |-> sys, a_signup_id |-> 1, b_signup_id |-> b,
     status |-> StrPending, a_faction |-> <<>>, b_faction |-> <<>>] :
      w \in HistoryWeeks, sys \in { StrTOW, StrHorusHeresy }, b \in 0..4 }

InitHistory ==
  /\ week \in { WeekId, StrWeekBad }
  /\ system = StrTOW
  /\ allow_repeats_when_needed = TRUE
  /\ allow_tnt = TRUE
  /\ \E second \in { << "A", " " >>, << "b" >> } :
       \E third \in { PlainCasual, IntroSeekerProfile } :
         signups = SignupsOf(<< Entry(<< "a" >>, 1, PlainCasual),
                                Entry(second, 2, PlainCasual),
                                Entry(<< "c" >>, 3, third) >>)
  /\ \E n \in 0..MaxStored : pairings \in [1..n -> StoredRows]
  /\ recent = {}
  /\ other = NoCall
  /\ cache = {}
  /\ Fresh

SpecHistory == InitHistory /\ [][Next]_vars

\* ---- The admin page's "Generate pairings" button: each press clears the
\* pending pairings of its week and system in one transaction, then calls
\* generate_pairings_for_week.  A press starts at pc = "clear".
StrPlayed == << "p", "l", "a", "y", "e", "d" >>
StrCancelled == << "c", "a", "n", "c", "e", "l", "l", "e", "d" >>

\* A clear that deletes the rows of the week and system whatever their status.
ClearedAnyStatus(stored, w, sys) ==
  SelectSeq(stored, LAMBDA p : ~(p.week = w /\ p.system = sys))

\* lines 1537-1542: the pairings table once the rows selected by
\* week == week_val, system == sys_pick and status == "pending" are deleted.
ClearedPending(stored, w, sys) ==
  SelectSeq(stored, LAMBDA p : ~(p.week = w /\ p.system = sys /\ p.status = StrPending))

ClearPending ==
  /\ pc = "clear"
  /\ pairings' = ClearedPending(pairings, week, system)
  /\ pc' = "start"
  /\ UNCHANGED << inputs, rows, candidates, seekers, leaders, s_idx,
                  used_intro, intro_pairs, seen_pairs, used, i, out, scanned,
                  cache >>

\* The arguments and locals of a press that has not taken a step.
PressFrame(w, sys) == [FreshFrame(w, sys, TRUE, TRUE) EXCEPT !.pc = "clear"]

\* Presses one after the other: `other` holds those still to come, and the
\* next one starts when the one before has returned.
NextPress ==
  /\ pc = "done"
  /\ other # NoCall
  /\ other' = Tail(other)
  /\ week' = other[1].week
  /\ system' = other[1].system
  /\ allow_repeats_when_needed' = other[1].allow_repeats_when_needed
  /\ allow_tnt' = other[1].allow_tnt
  /\ pc' = other[1].pc
  /\ rows' = other[1].rows
  /\ candidates' = other[1].candidates
  /\ seekers' = other[1].seekers
  /\ leaders' = other[1].leaders
  /\ s_idx' = other[1].s_idx
  /\ used_intro' = other[1].used_intro
  /\ intro_pairs' = other[1].intro_pairs
  /\ seen_pairs' = other[1].seen_pairs
  /\ used' = other[1].used
  /\ i' = other[1].i
  /\ out' = other[1].out
  /\ scanned' = other[1].scanned
  /\ UNCHANGED << signups, recent, pairings, cache >>

\* ttl=180: an entry of the cache is dropped 180 seconds after it was made.
Expire ==
  /\ \E e \in cache : cache' = cache \ { e }
  /\ UNCHANGED << signups, recent, week, system, allow_repeats_when_needed,
                  allow_tnt, pc, rows, candidates, seekers, leaders, s_idx,
                  used_intro, intro_pairs, seen_pairs, used, i, out, scanned,
                  pairings, other >>

\* Up to MaxPresses presses, each for this week or the next one of TOW;
\* players a, b and maybe c, each signed up for both weeks (ids 1..n for this
\* week, n+1..2n for the next); the pairings table holds any of five rows of
\* signups 1 and 2 or n+1 and n+2 at the first press.
MaxPresses == 3

AdminProfiles == { PlainCasual, IntroSeekerProfile }

AdminSignups(n, pf) ==
  [k \in 1..(2 * n) |->
     LET m == IF k <= n THEN k ELSE k - n
     IN  Signup(k, m, IF k <= n THEN WeekId ELSE StrWeekNext, StrTOW,
                << << "a" >>, << "b" >>, << "c" >>, << "d" >>, << "e" >> >>[m], pf[m])]

AdminStored(n) ==
  << [week |-> WeekId, system |-> StrTOW, a_signup_id |-> 1, b_signup_id |-> 2,
      status |-> StrPending, a_faction |-> <<>>, b_faction |-> <<>>],
     [week |-> WeekId, system |-> StrTOW, a_signup_id |-> 1, b_signup_id |-> 2,
      status |-> StrPlayed, a_faction |-> <<>>, b_faction |-> <<>>],
     [week |-> WeekId, system |-> StrTOW, a_signup_id |-> 2, b_signup_id |-> NoSignup,
      status |-> StrCancelled, a_faction |-> <<>>, b_faction |-> <<>>],
     [week |-> WeekId, system |-> StrHorusHeresy, a_signup_id |-> 1, b_signup_id |-> 2,
      status |-> StrPending, a_faction |-> <<>>, b_faction |-> <<>>],
     [week |-> StrWeekNext, system |-> StrTOW, a_signup_id |-> n + 1,
      b_signup_id |-> n + 2,
      status |-> StrPending, a_faction |-> <<>>, b_faction |-> <<>>] >>

\* The rows of `stored` at the positions of `keep`, in order.
RECURSIVE RowsAt(_, _, _)
RowsAt(stored, keep, n) ==
  IF n > Len(stored) THEN <<>>
  ELSE (IF n \in keep THEN << stored[n] >> ELSE <<>>) \o RowsAt(stored, keep, n + 1)

InitAdmin ==
  /\ week \in { WeekId, StrWeekNext }
  /\ system = StrTOW
  /\ allow_repeats_when_needed = TRUE
  /\ allow_tnt = TRUE
  /\ \E n \in 2..MaxSignups :
       \E pf \in [1..n -> AdminProfiles] :
         \E keep \in SUBSET (1..5) :
           /\ signups = AdminSignups(n, pf)
           /\ pairings = RowsAt(AdminStored(n), keep, 1)
  /\ \E more \in 0..(MaxPresses - 1) :
       \E wk \in [1..more -> { WeekId, StrWeekNext }] :
         other = [k \in 1..more |-> PressFrame(wk[k], StrTOW)]
  /\ recent = {}
  /\ cache = {}
  /\ pc = "clear"
  /\ rows = <<>>
  /\ candidates = <<>>
  /\ seekers = <<>>
  /\ leaders = <<>>
  /\ s_idx = 1
  /\ used_intro = {}
  /\ intro_pairs = <<>>
  /\ seen_pairs = {}
  /\ used = {}
  /\ i = 1
  /\ out = <<>>
  /\ scanned = <<>>

NextAdmin == Next \/ ClearPending \/ NextPress \/ Expire

SpecAdmin == InitAdmin /\ [][NextAdmin]_vars

\* ---- Two presses of Generate for the same week and system, from two
\* sessions: each is a clear-pending transaction followed by a generation, and
\* they take turns at any point between two steps.
InitRace ==
  /\ InitAdmin
  /\ Len(other) = 1
  /\ other[1].week = week

NextRace == Next \/ ClearPending \/ Switch

SpecRace == InitRace /\ [][NextRace]_vars

\* ------------------------------------------------------------ the results
\* The candidate key a signup id stands for.
KeyOf(id) == NameKey(signups[id])

IsBye(p) == p.b_signup_id = NoSignup

\* The candidate keys a PairingResult references.
RefKeys(p) ==
  IF IsBye(p) THEN { KeyOf(p.a_signup_id) }
  ELSE { KeyOf(p.a_signup_id), KeyOf(p.b_signup_id) }

\* The list under construction: intro_pairs, which `out` then continues.
Results == IF pc = "intro" THEN intro_pairs ELSE out

\* The part of `out` the general pass appended.
GeneralResults == SubSeq(out, Len(intro_pairs) + 1, Len(out))

Range(seq) == { seq[n] : n \in 1..Len(seq) }

\* C1 (no duplicate participation): at every point of a call, each candidate
\* key is referenced by at most one PairingResult of the list being built,
\* as aRef or as bRef, intro-pass and general-pass results counted together;
\* and no key matched in the intro pass is referenced by a general-pass result.
NoDuplicateParticipation ==
  /\ \A m, n \in 1..Len(Results) :
       m < n => RefKeys(Results[m]) \cap RefKeys(Results[n]) = {}
  /\ \A p \in Range(Results) :
       ~IsBye(p) => KeyOf(p.a_signup_id) # KeyOf(p.b_signup_id)
  /\ \A p \in Range(GeneralResults) : RefKeys(p) \cap used_intro = {}

\* A finished call in which both passes emitted results.
BothPassesEmitted ==
  /\ pc = "done"
  /\ intro_pairs # <<>>
  /\ GeneralResults # <<>>

\* C2 (full coverage): when a call with a non-empty pool has returned, the
\* keys referenced by the returned results are exactly the normalized names
\* of the signups, one reference per de-duplicated candidate.
FullCoverage ==
  (pc = "done" /\ signups # <<>>) =>
    /\ UNION { RefKeys(p) : p \in Range(out) } = Keys(signups)
    /\ Len(SelectSeq(out, IsBye)) + 2 * (Len(out) - Len(SelectSeq(out, IsBye)))
         = Cardinality(Keys(signups))

\* A finished call over three signups of two players, which returned their
\* pairing.
CoveredAfterDedup ==
  /\ pc = "done"
  /\ Len(signups) = 3
  /\ Cardinality(Keys(signups)) = 2
  /\ Len(out) = 1
  /\ ~IsBye(out[1])

\* Unused candidates after position n of the general loop.
Later(n) == { j \in (n + 1)..Len(candidates) : candidates[j].key \notin used }

\* C3 (repeat fallback): in a general-pass iteration for an unused candidate
\* i, with allowRepeatsWhenNeeded true, some unused later candidate, and every
\* unused later candidate a HistoryPair with i, the iteration emits a pairing
\* of i with one of them, not a BYE.
RepeatFallback ==
  [][ ( /\ pc = "general"
        /\ i <= Len(candidates)
        /\ candidates[i].key \notin used
        /\ allow_repeats_when_needed
        /\ Later(i) # {}
        /\ \A j \in Later(i) :
             has_played(candidates[i].key, candidates[j].key, seen_pairs) )
      => ( /\ Len(out') = Len(out) + 1
           /\ out'[Len(out')].a_signup_id = candidates[i].row.id
           /\ \E j \in Later(i) :
                out'[Len(out')].b_signup_id = candidates[j].row.id ) ]_vars

\* Whether a result pairs two players of a pair of the HistoryIndex.
InHistory(p) ==
  ~IsBye(p) /\ SortedPair(KeyOf(p.a_signup_id), KeyOf(p.b_signup_id)) \in recent

\* A pairing of all candidates (all but one when their number is odd) that
\* uses no pair of the HistoryIndex exists.
RepeatFreePairingExists ==
  \E M \in SUBSET (KeyPairs(signups) \ recent) :
    /\ \A e, f \in M : e # f => {e[1], e[2]} \cap {f[1], f[2]} = {}
    /\ Cardinality(Keys(signups)) - 2 * Cardinality(M) <= 1

ByeCount == Len(SelectSeq(GeneralResults, IsBye))

\* No two candidates left after the intro pass are a HistoryPair.
NoHistoryInPool ==
  \A m, n \in 1..Len(candidates) :
    m # n => ~has_played(candidates[m].key, candidates[n].key, recent)

\* C6 as claimed (odd-count BYE): when the pool left after the intro pass is
\* odd, the general pass emits exactly one BYE, whatever the history and flags.
OddCountByeAlways ==
  (pc = "done" /\ Len(candidates) % 2 = 1) => ByeCount = 1

\* C6 (amended): when the pool left after the intro pass is odd, the general
\* pass emits an odd number of BYEs, and exactly one when no two candidates
\* of the pool are a HistoryPair.
OddCountBye ==
  (pc = "done" /\ Len(candidates) % 2 = 1) =>
    /\ ByeCount % 2 = 1
    /\ NoHistoryInPool => ByeCount = 1

\* A finished call with three candidates in the general pass, one BYE.
OddPoolOneBye ==
  /\ pc = "done"
  /\ Len(candidates) = 3
  /\ NoHistoryInPool
  /\ ByeCount = 1

\* Leaders other than the seeker that are still unused.
AvailableLeaders(seeker) ==
  { m \in Range(candidates) :
      IsLeader(m) /\ m.key \notin used_intro /\ m.key # seeker.key }

\* C8 (intro priority): an iteration of the intro pass for a seeker not yet
\* used pairs it (as aRef) with a leader (bRef) that was unused and is not
\* the seeker whenever there is one, and marks both used; it emits nothing
\* only when there is none, and the seeker then stays in the pool of the
\* general pass.
IntroPriority ==
  [][ ( /\ pc = "intro"
        /\ s_idx <= Len(seekers)
        /\ seekers[s_idx].key \notin used_intro )
      => IF AvailableLeaders(seekers[s_idx]) # {}
         THEN /\ Len(intro_pairs') = Len(intro_pairs) + 1
              /\ SubSeq(intro_pairs', 1, Len(intro_pairs)) = intro_pairs
              /\ intro_pairs'[Len(intro_pairs')].a_signup_id = seekers[s_idx].row.id
              /\ \E m \in AvailableLeaders(seekers[s_idx]) :
                   /\ intro_pairs'[Len(intro_pairs')].b_signup_id = m.row.id
                   /\ used_intro' = used_intro \cup {seekers[s_idx].key, m.key}
         ELSE /\ intro_pairs' = intro_pairs
              /\ used_intro' = used_intro ]_vars

\* The worked example finished: (s, l) from the intro pass, then (a, b).
IntroExampleDone ==
  /\ pc = "done"
  /\ Len(signups) = 4
  /\ Len(out) = 2
  /\ Len(intro_pairs) = 1
  /\ << out[1].a_signup_id, out[1].b_signup_id >> = << 1, 2 >>
  /\ << out[2].a_signup_id, out[2].b_signup_id >> = << 3, 4 >>

\* All candidates of the call, before the intro pass removes any.
AllCandidates == BuildCandidates(rows)

DiffersInAll(x, y) ==
  /\ x.row.vibe # y.row.vibe
  /\ x.row.experience # y.row.experience
  /\ x.row.points # y.row.points

\* Repeats are not allowed and the candidates are a, b and c, where a and b
\* are the only HistoryPair and AllCandidates[c] differs from both in vibe,
\* experience and points.
OnlyPairPlayedThirdDiffers(c) ==
  /\ ~allow_repeats_when_needed
  /\ Len(AllCandidates) = 3
  /\ c \in 1..3
  /\ \E a, b \in 1..3 :
       /\ a # b /\ a # c /\ b # c
       /\ recent = { SortedPair(AllCandidates[a].key, AllCandidates[b].key) }
       /\ DiffersInAll(AllCandidates[c], AllCandidates[a])
       /\ DiffersInAll(AllCandidates[c], AllCandidates[b])

\* C10 as claimed: in that situation the call returns three BYEs.
ThreeByesWhenRepeatsForbidden ==
  (pc = "done" /\ \E c \in 1..3 : OnlyPairPlayedThirdDiffers(c)) =>
    /\ Len(out) = 3
    /\ \A p \in Range(out) : IsBye(p)

\* C10 (amended): in that situation, when the intro pass matched nobody, the
\* call returns exactly one pairing, between c and one of a and b, and
\* exactly one BYE, for the other; a and b are not rematched.
OnePairWithThirdWhenRepeatsForbidden ==
  \A c \in 1..3 :
    (pc = "done" /\ intro_pairs = <<>> /\ OnlyPairPlayedThirdDiffers(c)) =>
      /\ Len(out) = 2
      /\ \E m, n \in 1..2 :
           /\ IsBye(out[m])
           /\ ~IsBye(out[n])
           /\ AllCandidates[c].key \in RefKeys(out[n])
           /\ ~InHistory(out[n])

\* Such a call finished.
OnlyPairPlayedDone ==
  /\ pc = "done"
  /\ intro_pairs = <<>>
  /\ \E c \in 1..3 : OnlyPairPlayedThirdDiffers(c)
  /\ Len(out) = 2

\* C5 as claimed (determinism): the list returned is the same for every
\* order in which the query can yield the signups, signups with equal
\* created_at included.
Determinism ==
  pc = "done" =>
    \A order \in QueryOrders(signups, week, system) :
      Engine(order, signups, recent, week, system,
             allow_repeats_when_needed, allow_tnt) = out

DistinctCreatedAt(tbl) ==
  \A m, n \in 1..Len(tbl) : m # n => tbl[m].created_at # tbl[n].created_at

\* C5 (amended): when no two signups of the week and system have the same
\* created_at, the list returned is the same for every order in which the
\* query can yield them: pairs, a/b roles and order, intro results first.
DeterminismDistinctStamps ==
  (pc = "done" /\ DistinctCreatedAt(signups)) =>
    \A order \in QueryOrders(signups, week, system) :
      Engine(order, signups, recent, week, system,
             allow_repeats_when_needed, allow_tnt) = out

\* A finished call over three players with distinct created_at, two of them
\* seekers and one a leader, which returned an intro pairing and a BYE.
TwoSeekersOneLeaderDone ==
  /\ pc = "done"
  /\ DistinctCreatedAt(signups)
  /\ Len(AllCandidates) = 3
  /\ Len(seekers) = 2
  /\ Len(leaders) = 1
  /\ Len(intro_pairs) = 1
  /\ Len(out) = 2

\* Every ordering of a sequence of rows.
Orderings(rs) ==
  { [n \in 1..Len(rs) |-> rs[f[n]]] :
      f \in { g \in [1..Len(rs) -> 1..Len(rs)] :
                \A a, b \in 1..Len(rs) : a # b => g[a] # g[b] } }

\* A latest_by_name dict as a key-to-signup mapping, and the one
\* latest_by_name holds after reading rs.
MappingOf(latest) == { << e.key, e.row >> : e \in Range(latest) }
Mapping(rs) == MappingOf(LatestByName(rs, <<>>))

NotSpace(c) == c # " "

\* k is name trimmed, with every run of whitespace collapsed to one space,
\* in lower case.
IsNormalizedOf(k, name) ==
  /\ k # <<>> => k[1] # " " /\ k[Len(k)] # " "
  /\ \A n \in 1..(Len(k) - 1) : ~(k[n] = " " /\ k[n + 1] = " ")
  /\ \A n \in 1..Len(k) : k[n] = LowerChar(k[n])
  /\ SelectSeq(k, NotSpace) = Lower(SelectSeq(name, NotSpace))
  /\ Len(SelectSeq(k, NotSpace)) + Len(SplitWs(name, <<>>)) =
       Len(k) + (IF SplitWs(name, <<>>) = <<>> THEN 0 ELSE 1)

\* latest holds one entry per key of rs, a row of rs with that key and the
\* latest created_at of the rows with that key.
LatestPerKey(latest, rs) ==
  /\ \A m, n \in 1..Len(latest) : m # n => latest[m].key # latest[n].key
  /\ { e.key : e \in Range(latest) } = { NameKey(r) : r \in Range(rs) }
  /\ \A e \in Range(latest) :
       /\ e.row \in Range(rs)
       /\ NameKey(e.row) = e.key
       /\ \A r \in Range(rs) :
            NameKey(r) = e.key => r.created_at <= e.row.created_at

SameKeyStampsDistinct(rs) ==
  \A m, n \in 1..Len(rs) :
    (m # n /\ NameKey(rs[m]) = NameKey(rs[n]))
      => rs[m].created_at # rs[n].created_at

\* The candidates have just been built from the rows read.
CandidatesBuilt == pc = "intro" /\ s_idx = 1

\* C7 as claimed (latest wins, whatever the order): the key of every row
\* is its normalized name; the candidates built are the latest_by_name
\* mapping of the rows read; and for every ordering of those rows there is
\* one candidate per normalized name, it is the signup with the latest
\* created_at of that name, and the mapping from key to signup is the same.
LatestWinsAnyOrder ==
  CandidatesBuilt =>
    /\ \A r \in Range(rows) : IsNormalizedOf(NameKey(r), r.player_name)
    /\ \A built \in { Mapping(rows) } :
         /\ built = { << c.key, c.row >> : c \in Range(candidates) }
         /\ \A perm \in Orderings(rows) :
              \A latest \in { LatestByName(perm, <<>>) } :
                /\ LatestPerKey(latest, perm)
                /\ MappingOf(latest) = built

\* C7 (amended): the key of every row is its normalized name; the
\* candidates built are the latest_by_name mapping of the rows read; for
\* every ordering of those rows there is one candidate per normalized name
\* and it is a signup with the latest created_at of that name; and the
\* mapping from key to signup is the same for every ordering when no two
\* signups of one name share their created_at.
LatestWins ==
  CandidatesBuilt =>
    /\ \A r \in Range(rows) : IsNormalizedOf(NameKey(r), r.player_name)
    /\ \A built \in { Mapping(rows) } :
         /\ built = { << c.key, c.row >> : c \in Range(candidates) }
         /\ \A perm \in Orderings(rows) :
              \A latest \in { LatestByName(perm, <<>>) } :
                /\ LatestPerKey(latest, perm)
                /\ SameKeyStampsDistinct(rows) => MappingOf(latest) = built

\* Three rows read, two of them of one player under differently written
\* names and created at different times: two candidates, the later row kept.
LaterSignupKept ==
  /\ pc = "intro"
  /\ Len(rows) = 3
  /\ Len(candidates) = 2
  /\ SameKeyStampsDistinct(rows)
  /\ \E m, n \in 1..3 :
       /\ rows[m].player_name # rows[n].player_name
       /\ NameKey(rows[m]) = NameKey(rows[n])
       /\ rows[m].created_at < rows[n].created_at
       /\ \E c \in 1..2 : candidates[c].row = rows[n]

SameOptionalFields(x, y) ==
  /\ x.row.faction = y.row.faction
  /\ x.row.eta = y.row.eta
  /\ x.row.scenario = y.row.scenario
  /\ x.row.tnt_ok = y.row.tnt_ok

\* A call has returned; there were no history, no seekers and no leaders,
\* and three candidates.
ThreePlainDone ==
  /\ pc = "done"
  /\ recent = {}
  /\ Len(rows) = 3
  /\ Len(seekers) = 0
  /\ Len(leaders) = 0
  /\ Len(candidates) = 3

\* Of the three candidates cands, x and y have the same preference key and
\* optional fields, x's key sorting first, and z differs from them in vibe
\* weight, experience weight and points bucket.
TwoAlikeOneApart(cands, x, y, z) ==
  /\ {x, y, z} = 1..3
  /\ cands[x].preference = cands[y].preference
  /\ SameOptionalFields(cands[x], cands[y])
  /\ StrLess(cands[x].key, cands[y].key)
  /\ \A n \in 1..3 : cands[x].preference[n] # cands[z].preference[n]

PairThenBye(cands, x, y, z) ==
  out = << Pairing(week, system, cands[x].row, << cands[y].row >>),
           Pairing(week, system, cands[z].row, <<>>) >>

\* C9 as claimed: two candidates alike are paired with each other and the
\* third, differing in vibe, experience and points bucket, gets the BYE.
AlikePairedAlways ==
  ThreePlainDone =>
    \A cands \in { AllCandidates } : \A x, y, z \in 1..3 :
      TwoAlikeOneApart(cands, x, y, z) => PairThenBye(cands, x, y, z)

\* C9 (amended): two candidates alike are paired with each other and the
\* third gets the BYE when the preference key of the two sorts before the
\* third's and the two do not name the same faction.
AlikePairedWhenSortedFirst ==
  ThreePlainDone =>
    \A cands \in { AllCandidates } : \A x, y, z \in 1..3 :
      ( /\ TwoAlikeOneApart(cands, x, y, z)
        /\ TupleLess(cands[x].preference, cands[z].preference)
        /\ mirror_flag(cands[x].row, cands[y].row) = 0 )
      => PairThenBye(cands, x, y, z)

\* The worked example finished: a and b (Casual, New, 2000), c
\* (Competitive, Veteran, 4000) returned (a, b) and a BYE for c.
AlikeExampleDone ==
  /\ pc = "done"
  /\ Len(signups) = 3
  /\ \A n \in 1..2 :
       /\ signups[n].vibe = StrCasualUi
       /\ signups[n].experience = StrNewUi
       /\ signups[n].points = 2000
  /\ signups[3].vibe = StrCompetitiveUi
  /\ signups[3].experience = StrVeteranUi
  /\ signups[3].points = 4000
  /\ ThreePlainDone
  /\ \E x, y, z \in 1..3 :
       /\ TwoAlikeOneApart(AllCandidates, x, y, z)
       /\ PairThenBye(AllCandidates, x, y, z)

\* No signup exists for the (week, system) of the call that runs.
NoSignupForKey ==
  \A n \in 1..Len(signups) :
    ~(signups[n].week = week /\ signups[n].system = system)

\* A stored pairing of the (week, system) of the call that runs.
OfKey(p) == p.week = week /\ p.system = system

\* C11 (empty input): a call for a (week, system) without signups goes from
\* its start straight to its return, in a step that leaves the pairings
\* table as it was; it returns the empty list, and the table never holds a
\* pairing of that (week, system).
EmptyInput ==
  /\ [](NoSignupForKey =>
          /\ pc \in { "start", "done" }
          /\ out = <<>>
          /\ SelectSeq(pairings, OfKey) = <<>>)
  /\ [][ (NoSignupForKey /\ pc = "start" /\ other' = other)
           => (pc' = "done" /\ out' = <<>> /\ pairings' = pairings) ]_vars

\* A call without signups for its key has returned, while the table holds
\* signups of another key and the other call has stored pairings.
EmptyInputReturned ==
  /\ pc = "done"
  /\ NoSignupForKey
  /\ signups # <<>>
  /\ pairings # <<>>
  /\ out = <<>>

\* The minutes after midnight an ETA text stands for, by EtaCases.
MinutesOf(text) == (CHOOSE c \in EtaCases : c.text = text).minutes

\* The bucket of two arrival times: 2 when one is unknown, else by their
\* distance in minutes.
ExpectedEtaBucket(am, bm) ==
  IF am = <<>> \/ bm = <<>> THEN 2
  ELSE IF Abs(am[1] - bm[1]) <= 15 THEN 0
  ELSE IF Abs(am[1] - bm[1]) <= 30 THEN 1
  ELSE IF Abs(am[1] - bm[1]) <= 60 THEN 2
  ELSE 3

\* C12 (ETA handling never fails): for any two signups the ETA-bucket
\* difference is 0, 1, 2 or 3 by the distance of their times in minutes
\* (at most 15, 30, 60, more) and 2 when either ETA is missing or is not a
\* time; and a call over such signups returns with every candidate in
\* exactly one result.
EtaNeverFails ==
  /\ \A m, n \in 1..Len(signups) :
       eta_bucket_diff(signups[m], signups[n])
         = ExpectedEtaBucket(MinutesOf(signups[m].eta), MinutesOf(signups[n].eta))
  /\ pc = "done" =>
       /\ UNION { RefKeys(p) : p \in Range(out) } = Keys(signups)
       /\ \A m, n \in 1..Len(out) :
            m # n => RefKeys(out[m]) \cap RefKeys(out[n]) = {}

\* A call over three players has returned: the first, whose ETA is a time,
\* is paired with the third, who arrives within 15 minutes of it, and the
\* second, whose ETA is not a time, has the BYE.
UnparseableEtaGetsBye ==
  /\ pc = "done"
  /\ Len(signups) = 3
  /\ MinutesOf(signups[1].eta) # <<>>
  /\ signups[2].eta # <<>>
  /\ MinutesOf(signups[2].eta) = <<>>
  /\ eta_bucket_diff(signups[1], signups[3]) = 0
  /\ Len(out) = 2
  /\ << out[1].a_signup_id, out[1].b_signup_id >> = << 1, 3 >>
  /\ << out[2].a_signup_id, out[2].b_signup_id >> = << 2, NoSignup >>

\* What the call that runs returns when no other call stores anything.
AloneResults ==
  { Engine(order, signups, recent, week, system,
           allow_repeats_when_needed, allow_tnt) :
      order \in QueryOrders(signups, week, system) }

\* The pairings table holds, for the key of the call that runs, what that
\* call has emitted so far and nothing else.
OwnPairingsOnly == SelectSeq(pairings, OfKey) = Results

KeysApart ==
  \/ other[1].system # system
  \/ Abs(parse_week_id(week)[1] - parse_week_id(other[1].week)[1]) \div 7
       > MaxWeeks

SeekerIndex(id) == CHOOSE n \in 1..Len(seekers) : seekers[n].row.id = id
PoolIndex(id) == CHOOSE n \in 1..Len(candidates) : candidates[n].row.id = id

\* C14 (output order): the list is the intro-pass results, their seekers
\* in the order of the seeker loop, followed by the general-pass results,
\* their first players in the order of the sorted pool; and every step
\* leaves the results emitted so far where they are, adding at the end.
OutputOrder ==
  /\ []( pc \in { "general", "done" } =>
           /\ SubSeq(out, 1, Len(intro_pairs)) = intro_pairs
           /\ \A n \in 1..Len(intro_pairs) :
                \E k \in 1..Len(seekers) : seekers[k].row.id = out[n].a_signup_id
           /\ \A m, n \in 1..Len(intro_pairs) :
                m < n => SeekerIndex(out[m].a_signup_id)
                           < SeekerIndex(out[n].a_signup_id)
           /\ \A n \in (Len(intro_pairs) + 1)..Len(out) :
                \E k \in 1..Len(candidates) :
                  candidates[k].row.id = out[n].a_signup_id
           /\ \A m, n \in (Len(intro_pairs) + 1)..Len(out) :
                m < n => PoolIndex(out[m].a_signup_id)
                           < PoolIndex(out[n].a_signup_id) )
  /\ [][ /\ Len(Results') >= Len(Results)
         /\ SubSeq(Results', 1, Len(Results)) = Results ]_vars

\* A call has returned an intro pairing followed by a BYE for the player
\* who had signed up before both the seeker and the leader.
IntroResultBeforeEarlierSignup ==
  /\ pc = "done"
  /\ Len(signups) = 3
  /\ Len(intro_pairs) = 1
  /\ Len(out) = 2
  /\ << out[1].a_signup_id, out[1].b_signup_id >> = << 2, 3 >>
  /\ << out[2].a_signup_id, out[2].b_signup_id >> = << 1, NoSignup >>

\* C15 (no self-pairing): in neither pass is a player paired with
\* themselves: the two signups of a result differ and belong to different
\* normalized names, also for an intro seeker who can lead demos.
NoSelfPairing ==
  \A n \in 1..Len(Results) :
    ~IsBye(Results[n]) =>
      /\ Results[n].a_signup_id # Results[n].b_signup_id
      /\ KeyOf(Results[n].a_signup_id) # KeyOf(Results[n].b_signup_id)

\* A call has returned for a pool in which a seeker who can lead demos was
\* the only leader left for them: no intro pairing for them, and the general
\* pass dealt with them.
SeekerLeaderNotOwnLeader ==
  /\ pc = "done"
  /\ \E n \in 1..Len(out) :
       LET su == signups[out[n].a_signup_id]
       IN  /\ n > Len(intro_pairs)
           /\ su.can_demo
           /\ su.vibe # <<>> /\ Lower(su.vibe) = StrIntro

\* The six differences between two candidates, most significant first:
\* mirror, ETA bucket, scenario mismatch, vibe, experience, points bucket.
SixTuple(a, b) ==
  << mirror_flag(a.row, b.row),
     eta_bucket_diff(a.row, b.row),
     scenario_diff_tow(a.row, b.row, system),
     vibe_distance_override(a.row, b.row, Abs(a.preference[1] - b.preference[1])),
     Abs(a.preference[2] - b.preference[2]),
     Abs(a.preference[3] - b.preference[3]) >>

\* The candidates after position n that are unused and have not recently
\* played the one at n.
Eligible(n) ==
  { j \in Later(n) :
      /\ candidates[j].key \notin used
      /\ SortedPair(candidates[n].key, candidates[j].key) \notin seen_pairs }

Searcher ==
  candidates[CHOOSE n \in 1..Len(candidates) :
               candidates[n].row.id = out[Len(out)].a_signup_id]

\* C19 (early exit): the scan for a candidate stops at the first eligible
\* j whose six-tuple is all zero: no position after such a j is examined.
EarlyExit ==
  (pc \in { "general", "done" } /\ Len(out) > Len(intro_pairs)) =>
    \A m \in 1..Len(scanned) :
      SixTuple(Searcher, candidates[scanned[m]]) = << 0, 0, 0, 0, 0, 0 >>
        => m = Len(scanned)

\* The three differences between a seeker and a leader: vibe weight,
\* experience weight, points bucket.
ThreeTuple(a, b) ==
  << Abs(a.preference[1] - b.preference[1]),
     Abs(a.preference[2] - b.preference[2]),
     Abs(a.preference[3] - b.preference[3]) >>

\* The positions of the leaders that are unused and are not the seeker.
AvailableAt(seeker) ==
  { n \in 1..Len(leaders) :
      leaders[n].key \notin used_intro /\ leaders[n].key # seeker.key }

\* C20 (intro leader selection): a seeker not yet used is matched with the
\* available leader whose three-tuple is lexicographically minimal, the
\* first such leader in iteration order; the scan examines the available
\* leaders in order and none after the first one at (0,0,0); with no
\* available leader the seeker is not matched.
LeaderSelection ==
  [][ (pc = "intro" /\ s_idx <= Len(seekers) /\ seekers[s_idx].key \notin used_intro)
      => LET seeker == seekers[s_idx]
             avail == AvailableAt(seeker)
             IsZero(n) == ThreeTuple(seeker, leaders[n]) = << 0, 0, 0 >>
         IN  /\ \A m \in 1..Len(scanned') :
                  /\ scanned'[m] \in avail
                  /\ m < Len(scanned') => ~IsZero(scanned'[m])
                  /\ m < Len(scanned') => scanned'[m] < scanned'[m + 1]
             /\ \A n \in avail :
                  \/ \E m \in 1..Len(scanned') : scanned'[m] = n
                  \/ \E z \in avail : z < n /\ IsZero(z)
             /\ IF avail = {}
                THEN intro_pairs' = intro_pairs
                ELSE \E n \in avail :
                       /\ \A k \in avail :
                            /\ ~TupleLess(ThreeTuple(seeker, leaders[k]),
                                          ThreeTuple(seeker, leaders[n]))
                            /\ ThreeTuple(seeker, leaders[k])
                                 = ThreeTuple(seeker, leaders[n]) => n <= k
                       /\ Len(intro_pairs') = Len(intro_pairs) + 1
                       /\ intro_pairs'[Len(intro_pairs')].a_signup_id = seeker.row.id
                       /\ intro_pairs'[Len(intro_pairs')].b_signup_id
                            = leaders[n].row.id ]_vars

\* The first seeker has been matched with the second of two leaders, the
\* nearer one, after the scan examined both.
NearerLeaderOverEarlier ==
  /\ pc = "intro"
  /\ s_idx = 2
  /\ Len(leaders) = 2
  /\ Len(intro_pairs) = 1
  /\ intro_pairs[1].a_signup_id = seekers[1].row.id
  /\ intro_pairs[1].b_signup_id = leaders[2].row.id
  /\ leaders[1].key # seekers[1].key
  /\ scanned = << 1, 2 >>
  /\ TupleLess(ThreeTuple(seekers[1], leaders[2]), ThreeTuple(seekers[1], leaders[1]))

\* The seekers who can lead demos.
SeekingLeaders == { m \in Range(seekers) : IsLeader(m) }

MatchedAsSeeker(m) ==
  \E n \in 1..Len(intro_pairs) :
    /\ intro_pairs[n].a_signup_id = m.row.id
    /\ intro_pairs[n].b_signup_id # m.row.id

MatchedAsLeader(m) ==
  \E n \in 1..Len(intro_pairs) :
    /\ intro_pairs[n].b_signup_id = m.row.id
    /\ intro_pairs[n].a_signup_id # m.row.id

InGeneralPool(m) == \E n \in 1..Len(candidates) : candidates[n].key = m.key

\* C21 as claimed (seeker role of a seeker who leads): once the intro pass
\* is over, every candidate who is both an intro seeker and a demo leader
\* is the first player of an intro pairing, is the leader of no other
\* seeker and is not in the pool of the general pass.
SeekingLeaderAlwaysSeeker ==
  pc \in { "general", "done" } =>
    \A m \in SeekingLeaders :
      MatchedAsSeeker(m) /\ ~MatchedAsLeader(m) /\ ~InGeneralPool(m)

\* C21 (amended): once the intro pass is over, a candidate who is both an
\* intro seeker and a demo leader is in exactly one of three cases, and
\* never matched with themselves: matched as the seeker with another
\* leader; matched as the leader of another seeker; or in the pool of the
\* general pass, every other leader and every other seeker being used.
SeekingLeaderOneOfThreeRoles ==
  pc \in { "general", "done" } =>
    \A m \in SeekingLeaders :
      /\ \A n \in 1..Len(intro_pairs) :
           intro_pairs[n].a_signup_id = m.row.id
             => intro_pairs[n].b_signup_id # m.row.id
      /\ \/ MatchedAsSeeker(m) /\ ~MatchedAsLeader(m) /\ ~InGeneralPool(m)
         \/ ~MatchedAsSeeker(m) /\ MatchedAsLeader(m) /\ ~InGeneralPool(m)
         \/ ~MatchedAsSeeker(m) /\ ~MatchedAsLeader(m) /\ InGeneralPool(m)
      /\ InGeneralPool(m) =>
           /\ \A n \in 1..Len(leaders) :
                leaders[n].key # m.key => leaders[n].key \in used_intro
           /\ \A n \in 1..Len(seekers) :
                seekers[n].key # m.key => seekers[n].key \in used_intro

\* A call has returned an intro pairing whose leader asked for an intro
\* game too.
SeekingLeaderLedAnother ==
  /\ pc = "done"
  /\ \E m \in SeekingLeaders : MatchedAsLeader(m)

\* C22 as claimed (no intro seeker in the general pass): the pool of the
\* general pass holds no candidate whose vibe is "intro".
NoSeekerInGeneralPass ==
  pc \in { "general", "done" } =>
    \A n \in 1..Len(candidates) : ~IsSeeker(candidates[n])

InIntroPair(m) ==
  \E n \in 1..Len(intro_pairs) :
    m.row.id \in { intro_pairs[n].a_signup_id, intro_pairs[n].b_signup_id }

\* C22 (amended): an intro seeker is in the pool of the general pass
\* exactly when the intro pass did not match them, and then the general
\* pass gives them a result like any other candidate.
OnlyUnmatchedSeekersInGeneralPass ==
  pc \in { "general", "done" } =>
    \A n \in 1..Len(seekers) :
      /\ InGeneralPool(seekers[n]) <=> ~InIntroPair(seekers[n])
      /\ (pc = "done" /\ InGeneralPool(seekers[n])) =>
           \E k \in (Len(intro_pairs) + 1)..Len(out) :
             seekers[n].row.id \in { out[k].a_signup_id, out[k].b_signup_id }

\* A call has returned a general-pass pairing of an intro seeker, for whom
\* there was no leader, with a player who is not one.
SeekerPairedInGeneralPass ==
  /\ pc = "done"
  /\ \E k \in (Len(intro_pairs) + 1)..Len(out) :
       /\ ~IsBye(out[k])
       /\ \E n \in 1..Len(seekers) : seekers[n].row.id = out[k].b_signup_id
       /\ \A n \in 1..Len(seekers) : seekers[n].row.id # out[k].a_signup_id

\* The vibe of a candidate as the general pass reads it, and the pairs of
\* positions of the pool in which nobody asks for an intro game.
VibeText(m) == Lower(Strip(m.row.vibe))
PoolPairsWithoutIntro ==
  { pr \in (1..Len(candidates)) \X (1..Len(candidates)) :
      /\ pr[1] < pr[2]
      /\ VibeText(candidates[pr[1]]) # StrIntro
      /\ VibeText(candidates[pr[2]]) # StrIntro }

\* The fourth component of the distance the general pass computes.
VibeDistance(a, b) == Dist(a, b, system)[4]

\* C23 as claimed (vibe distance by weights): for two candidates of the
\* general pass, neither asking for an intro game, the vibe distance is 0
\* if either vibe is "either", and otherwise 0 when their vibe weights are
\* equal and 1 when they differ.
VibeDistanceComparesWeights ==
  pc = "general" =>
    \A pr \in PoolPairsWithoutIntro :
      LET a == candidates[pr[1]]
          b == candidates[pr[2]]
      IN  VibeDistance(a, b)
            = IF VibeText(a) = StrEither \/ VibeText(b) = StrEither THEN 0
              ELSE IF a.preference[1] = b.preference[1] THEN 0 ELSE 1

\* C23 (amended): the vibe distance is 0 if either vibe is "either", and
\* otherwise 0 exactly when the two vibes are the same text once trimmed
\* and lower-cased, 1 when they are not; for two vibes among Casual and
\* Competitive that is the comparison of their weights.
VibeDistanceComparesTexts ==
  pc = "general" =>
    \A pr \in PoolPairsWithoutIntro :
      LET a == candidates[pr[1]]
          b == candidates[pr[2]]
      IN  /\ VibeDistance(a, b)
               = IF VibeText(a) = StrEither \/ VibeText(b) = StrEither THEN 0
                 ELSE IF VibeText(a) = VibeText(b) THEN 0 ELSE 1
          /\ ({ a.row.vibe, b.row.vibe } \subseteq { StrCasualUi, StrCompetitiveUi })
               => VibeDistance(a, b)
                    = (IF a.preference[1] = b.preference[1] THEN 0 ELSE 1)

\* Of three candidates with the same preference key, none choosing Either
\* or Intro, the first has been paired with the third, whose vibe is the
\* same text, the second having another text of the same weight.
SameTextOverSameWeight ==
  /\ pc = "general"
  /\ i = 2
  /\ Len(candidates) = 3
  /\ \A n \in 1..3 : /\ candidates[n].preference = candidates[1].preference
                     /\ VibeText(candidates[n]) \notin { StrIntro, StrEither }
  /\ VibeText(candidates[2]) # VibeText(candidates[1])
  /\ VibeText(candidates[3]) = VibeText(candidates[1])
  /\ Len(out) = 1
  /\ out[1].a_signup_id = candidates[1].row.id
  /\ out[1].b_signup_id = candidates[3].row.id

\* Two signups are of the same non-empty faction, case and surrounding
\* blanks apart.
FactionText(su) == Lower(Strip(su.faction))
IsMirror(a_su, b_su) ==
  FactionText(a_su) # <<>> /\ FactionText(a_su) = FactionText(b_su)

\* C24 (mirror avoidance dominates): when the candidate i of a search has
\* an eligible partner who is not of i's faction, the partner chosen for
\* i is not of i's faction, whatever the other differences are.
MirrorAvoidanceDominates ==
  [][ (/\ pc = "general" /\ i <= Len(candidates)
       /\ candidates[i].key \notin used
       /\ \E j \in Eligible(i) : ~IsMirror(candidates[i].row, candidates[j].row))
      => /\ Len(out') = Len(out) + 1
         /\ out'[Len(out')].a_signup_id = candidates[i].row.id
         /\ ~IsBye(out'[Len(out')])
         /\ ~IsMirror(candidates[i].row, signups[out'[Len(out')].b_signup_id]) ]_vars

\* The first of three candidates has been paired with the third, of
\* another faction and further away in every other respect, the second
\* being eligible, of the same faction and alike in every other respect.
MirrorSkippedForWorseFit ==
  /\ pc = "general"
  /\ i = 2
  /\ Len(candidates) = 3
  /\ Len(out) = 1
  /\ out[1].a_signup_id = candidates[1].row.id
  /\ out[1].b_signup_id = candidates[3].row.id
  /\ SortedPair(candidates[1].key, candidates[2].key) \notin seen_pairs
  /\ IsMirror(candidates[1].row, candidates[2].row)
  /\ ~IsMirror(candidates[1].row, candidates[3].row)
  /\ Tail(SixTuple(candidates[1], candidates[2])) = << 0, 0, 0, 0, 0 >>
  /\ \A n \in 2..6 : SixTuple(candidates[1], candidates[3])[n] > 0

\* A sequence of candidates is in ascending order of (preference, key).
IsAscending(seq) ==
  \A m, n \in 1..Len(seq) : m < n => SortKeyLess(seq[m], seq[n])

\* The conditions under which the order is biased: three-way grouping
\* enabled, TOW, an odd pool, at least three candidates happy with it.
BiasApplies ==
  /\ allow_tnt
  /\ system = StrTOW
  /\ Len(candidates) % 2 = 1
  /\ Cardinality({ n \in 1..Len(candidates) : candidates[n].row.tnt_ok }) >= 3

\* The candidates the intro pass left, whatever their order.
LeftByIntro ==
  { m \in Range(BuildCandidates(rows)) : m.key \notin used_intro }

\* C25 (activation and effect of the parity bias): the pool of the general
\* pass holds exactly the candidates the intro pass left; it is in
\* ascending order of (preference, key) unless the bias applies, and then
\* its last candidate is the greatest tntOk candidate in that order and the
\* candidates before it are in ascending order.
ParityBiasFrame ==
  pc \in { "general", "done" } =>
    /\ Range(candidates) = LeftByIntro
    /\ Cardinality(LeftByIntro) = Len(candidates)
    /\ ~BiasApplies => IsAscending(candidates)
    /\ BiasApplies =>
         LET last == candidates[Len(candidates)]
             rest == SubSeq(candidates, 1, Len(candidates) - 1)
         IN  /\ last.row.tnt_ok
             /\ IsAscending(rest)
             /\ \A n \in 1..Len(rest) :
                  rest[n].row.tnt_ok => SortKeyLess(rest[n], last)

\* The bias applied to a pool and moved a candidate: the pool is no longer
\* in ascending order.
BiasedPoolOutOfOrder ==
  /\ pc = "general"
  /\ BiasApplies
  /\ ~IsAscending(candidates)

\* The candidate the bias relocates: the tntOk candidate that comes last
\* in ascending order of (preference, key).
Relocated ==
  CHOOSE m \in Range(candidates) :
    /\ m.row.tnt_ok
    /\ \A n \in Range(candidates) : (n.row.tnt_ok /\ n # m) => SortKeyLess(n, m)

\* No candidate of the pool is nearer to one candidate than to another.
PoolAllAlike ==
  \A m, n, k \in 1..Len(candidates) :
    (m # n /\ m # k) =>
      SixTuple(candidates[m], candidates[n]) = SixTuple(candidates[m], candidates[k])

\* C26 (the parity bias is a nudge): when the bias applies, the relocated
\* candidate T is in exactly one general-pass result, as the player of a
\* BYE or as the partner an earlier candidate chose; T is sure to get the
\* BYE only when no candidate is nearer to one candidate than to another.
ParityBiasIsNudge ==
  (pc = "done" /\ BiasApplies) =>
    /\ Cardinality({ k \in (Len(intro_pairs) + 1)..Len(out) :
                       Relocated.row.id \in { out[k].a_signup_id, out[k].b_signup_id } }) = 1
    /\ \A k \in (Len(intro_pairs) + 1)..Len(out) :
         out[k].a_signup_id = Relocated.row.id => IsBye(out[k])
    /\ PoolAllAlike =>
         \A k \in (Len(intro_pairs) + 1)..Len(out) :
           IsBye(out[k]) <=> out[k].a_signup_id = Relocated.row.id

\* The bias applied and relocated T, an earlier candidate was paired with
\* T, and the BYE went to a candidate who is not tntOk.
RelocatedPairedByeElsewhere ==
  /\ pc = "done"
  /\ BiasApplies
  /\ candidates[Len(candidates)] = Relocated
  /\ ~IsAscending(candidates)
  /\ \E k \in (Len(intro_pairs) + 1)..Len(out) :
       out[k].b_signup_id = Relocated.row.id
  /\ \E k \in (Len(intro_pairs) + 1)..Len(out) :
       IsBye(out[k]) /\ ~signups[out[k].a_signup_id].tnt_ok

\* The days from 05/11/2025 to the date a week text stands for.
DaysOf(text) == (CHOOSE w \in HistoryWeeks : w.text = text).days

\* The pairings that were stored when the call read the history: all but
\* the ones its general pass has added since.
StoredAtRead == SubSeq(pairings, 1, Len(pairings) - Len(GeneralResults))

\* The stored pairing p puts the pair of names x, y in the index.
PutsInIndex(p, x, y) ==
  /\ p.system = system
  /\ p.b_signup_id # NoSignup
  /\ DaysOf(p.week) # <<>>
  /\ Abs(DaysOf(p.week)[1]) \div 7 <= 2
  /\ p.a_signup_id \in 1..Len(signups)
  /\ p.b_signup_id \in 1..Len(signups)
  /\ { x, y } = { KeyOf(p.a_signup_id), KeyOf(p.b_signup_id) }
  /\ x # y

HistoryDerivedAtInvocation ==
  [][pc = "intro" /\ pc' = "general"
       => seen_pairs' = previous_pairs_recent(recent, pairings, signups, system, week)]_vars

\* ---- C29
\* The stored pairings a press for (week, system) must not touch: those
\* played or cancelled, and those of another week or system.
NotForClearing(p) ==
  \/ p.status \in { StrPlayed, StrCancelled }
  \/ p.week # week
  \/ p.system # system

\* The pending pairings stored for (week, system), in the order stored.
PendingOfKey ==
  SelectSeq(pairings, LAMBDA p : p.week = week /\ p.system = system /\ p.status = StrPending)

\* C29: a press of Generate first deletes every stored pairing with status
\* "pending" of its week and system and no other row (played, cancelled and
\* other-week or other-system pairings stay as they are, in their order), and
\* only then generates; when a press, the first or a later one, has returned,
\* the pending pairings stored for its week and system are exactly the ones
\* that run created.
GenerateReplacesPending ==
  /\ [][pc = "clear" /\ pc' # "clear"
          => /\ pc' = "start"
             /\ pairings' = SelectSeq(pairings, NotForClearing)]_vars
  /\ [](pc = "start" => PendingOfKey = <<>>)
  /\ [](pc = "done" => PendingOfKey = out)

\* A press for this week has returned after a press for the next week did:
\* the played, the cancelled and the other system's pairing of this week and
\* the pairings the earlier press stored for the next week, a BYE among them,
\* are all there, next to the two or more pairings this run created.
LaterPressLeftTheRest ==
  /\ pc = "done"
  /\ week = WeekId
  /\ Len(out) >= 2
  /\ PendingOfKey = out
  /\ \E n \in 1..Len(pairings) :
       pairings[n].week = WeekId /\ pairings[n].system = StrTOW
         /\ pairings[n].status = StrPlayed
  /\ \E n \in 1..Len(pairings) :
       pairings[n].week = WeekId /\ pairings[n].system = StrTOW
         /\ pairings[n].status = StrCancelled
  /\ \E n \in 1..Len(pairings) : pairings[n].system = StrHorusHeresy
  /\ \E n \in 1..Len(pairings) :
       pairings[n].week = StrWeekNext /\ pairings[n].b_signup_id = NoSignup

\* ---- C30
\* The pending pairings stored for (week, system) that name signup id.
PendingNaming(id) ==
  { n \in 1..Len(pairings) :
      /\ pairings[n].week = week /\ pairings[n].system = system
      /\ pairings[n].status = StrPending
      /\ id \in { pairings[n].a_signup_id, pairings[n].b_signup_id } }

\* C30: when two presses of Generate for the same week and system have
\* interleaved and both have returned, every candidate of that week and system
\* is named by at most one pending pairing stored for them.
OnePendingPerCandidate ==
  pc = "done" /\ other # NoCall /\ other[1].pc = "done"
    => \A n \in 1..Len(rows) : Cardinality(PendingNaming(rows[n].id)) <= 1

====
